---- MODULE Spec2Model ----
(***************************************************************************)
(* memongo: launching an ephemeral mongod for tests.                       *)
(*                                                                         *)
(* The module models StartWithOptions (the launcher), the goroutine        *)
(* started by stdoutHandler (the stdout reader), Server.Stop, the mongod   *)
(* subprocess as far as the launcher sees it (alive or not, the lines it   *)
(* writes to its stdout pipe), and the watcher subprocess started by       *)
(* monitor.RunMonitor.                                                     *)
(*                                                                         *)
(* Further parts are modelled with specifications of their own:            *)
(* mongobin.GetOrDownloadMongod with extractURLToDest (the cache, called   *)
(* by several callers at once), Options.fillDefaults with                  *)
(* Options.getOrDownloadBinPath (the options), mongobin.MakeDownloadSpec   *)
(* with DownloadSpec.GetDownloadURL (the download spec), the stderr of     *)
(* the mongod, and the launch up to the start of the mongod with the       *)
(* arguments of the command for several versions and ports.  The move of   *)
(* an extracted file into the cache exists twice in the sources, as the    *)
(* end of extractURLToDest and as saveFile; the variable build says which  *)
(* one runs.                                                               *)
(*                                                                         *)
(* A stdout line is a sequence of tokens.  Each token stands for a piece   *)
(* of text; the line is the tokens joined by single blanks.  The tokens    *)
(* are the literals the regular expressions of memongo.go look for, in     *)
(* lower case and in another letter case, and two runs of digits.          *)
(***************************************************************************)
EXTENDS Integers, Sequences, FiniteSets, TLC

\* ------------------------------------------------------------------ bounds
\* number of lines the mongod process writes to stdout during one run
MaxLines == 2
\* number of calls of Server.Stop on the returned handle
MaxStops == 2
\* number of tokens of a stdout line in the classification specification
MaxTokens == 3
\* number of lines the mongod process writes to stderr during one run
MaxErrLines == 1

VARIABLES
    opts,             \* Options: [replica, auth, MongoVersion, Port]
    args,             \* the arguments of exec.Command, <<>> before
    pc,               \* position of StartWithOptions
    ret,              \* what StartWithOptions returned: [server, err]
    port,             \* the launcher's local variable port
    observed,         \* the events the select statement has received
    ownerAlive,       \* the process that called StartWithOptions is alive
    mongod,           \* cmd.Process: "none", "running", "dead"
    watcher,          \* watcherCmd.Process: "none", "running", "dead"
    watchArgs,        \* the pids handed to monitor.RunMonitor
    dbDir,            \* the scratch data directory: "none", "exists", "removed"
    killedBy,         \* who ended the mongod process
    cleanup,          \* the calls of the launcher's failure path, in order
    stopLog,          \* the calls of the latest Stop, in order
    stopCalls,        \* number of Stop calls so far
    fatal,            \* a panic or fatal error was raised
    hpc,              \* position of the stdout reader goroutine
    haveSentMessage,  \* the reader's local flag
    pending,          \* the message the reader is sending
    sentLog,          \* every message the reader has put on a channel
    matched,          \* some line read so far matches a rule of the table
    lastLine,         \* the line the reader has read last
    stream,           \* lines written to the stdout pipe and not yet read
    written,          \* number of lines written so far
    closed,           \* the write side of the stdout pipe is closed
    calleeErr,        \* the error fillDefaults or getOrDownloadBinPath returned
    files,            \* the files at their final paths under the cache root
    callState,        \* the calls of GetOrDownloadMongod, one per caller
    archive,          \* the entries of the tarball behind each URL
    build,            \* which of the two sources of the move into place is built
    filled,           \* the Options struct fillDefaults works on
    cfgPc,            \* position of the fillDefaults, getOrDownloadBinPath pair
    cfgErr,           \* the error the pair returned
    binPath,          \* the MongoPaths getOrDownloadBinPath returned
    host,             \* GoOS, GoArch and the two release files of mongobin
    download,         \* a call of MakeDownloadSpec and of GetDownloadURL
    errStream,        \* lines written to the stderr pipe and not yet read
    errLog            \* the stderr lines relayed to the logger

launcherVars == <<opts, args, pc, ret, port, observed>>
procVars == <<ownerAlive, mongod, watcher, watchArgs, dbDir, killedBy>>
stopVars == <<cleanup, stopLog, stopCalls, fatal>>
readerVars == <<hpc, haveSentMessage, pending, sentLog, matched, lastLine>>
pipeVars == <<stream, written, closed>>
cacheVars == <<files, callState, archive, build>>
configVars == <<filled, cfgPc, cfgErr, binPath>>
resolverVars == <<host, download>>
stderrVars == <<errStream, errLog>>
launchVars == <<launcherVars, procVars, stopVars, readerVars, pipeVars,
                calleeErr, stderrVars>>
vars == <<opts, args, pc, ret, port, observed, ownerAlive, mongod, watcher,
          watchArgs, dbDir, killedBy, cleanup, stopLog, stopCalls, fatal, hpc,
          haveSentMessage, pending, sentLog, matched, lastLine, stream,
          written, closed, calleeErr, files, callState, archive, build,
          filled, cfgPc, cfgErr, binPath, host, download, errStream,
          errLog>>

\* ------------------------------------------------------------ stdout lines
LowerTokens == {"waiting for connections", "port",
                "waiting for connections on port", "27017",
                "99999999999999999999", "addr already in use",
                "mongod already running", "mongod permission denied",
                "data directory", "not found", "shutting down with code"}
MixedTokens == {"Waiting For Connections On Port", "Addr Already In Use"}
Tokens == LowerTokens \cup MixedTokens

\* strings.ToLower on one token
LowerOf(t) ==
    CASE t = "Waiting For Connections On Port"
             -> "waiting for connections on port"
      [] t = "Addr Already In Use" -> "addr already in use"
      [] OTHER -> t

\* strings.ToLower(line)
ToLower(line) == [i \in 1..Len(line) |-> LowerOf(line[i])]

\* \d: the token is a run of decimal digits
IsDigits(t) == t \in {"27017", "99999999999999999999"}

\* strconv.Atoi: fails when the digits do not fit an int
Atoi(t) ==
    IF t = "27017" THEN [ok |-> TRUE, n |-> 27017]
    ELSE [ok |-> FALSE, n |-> 0]

Contains(s, t) == \E i \in 1..Len(s) : s[i] = t

\* the text of the token contains "waiting for connections" / "port"
HasWaiting(t) == t \in {"waiting for connections",
                        "waiting for connections on port"}
HasPort(t) == t \in {"port", "waiting for connections on port"}

\* reReady = `waiting for connections.*port\D*(\d+)`: the positions of a
\* "port" that follows a "waiting for connections" and is followed by
\* digits
ReadyPorts(s) ==
    {j \in 1..Len(s) :
        /\ HasPort(s[j])
        /\ \/ s[j] = "waiting for connections on port"
           \/ \E i \in 1..(j - 1) : HasWaiting(s[i])
        /\ \E k \in (j + 1)..Len(s) : IsDigits(s[k])}

reReadyMatch(s) == ReadyPorts(s) # {}

\* match[1]: .* is greedy, so the last possible "port" is taken; \D* then
\* skips to the first run of digits after it
reReadyCapture(s) ==
    LET j == CHOOSE x \in ReadyPorts(s) : \A y \in ReadyPorts(s) : y <= x
        k == CHOOSE x \in (j + 1)..Len(s) :
                 /\ IsDigits(s[x])
                 /\ \A y \in (j + 1)..(x - 1) : ~IsDigits(s[y])
    IN  s[k]

reAlreadyInUse(s) == Contains(s, "addr already in use")
reAlreadyRunning(s) == Contains(s, "mongod already running")
rePermissionDenied(s) == Contains(s, "mongod permission denied")
\* "data directory .*? not found": a blank follows "data directory" and
\* another blank precedes "not found", so something stands between them
reDataDirectoryNotFound(s) ==
    \E i \in 1..Len(s) : \E j \in (i + 2)..Len(s) :
        s[i] = "data directory" /\ s[j] = "not found"
reShuttingDown(s) == Contains(s, "shutting down with code")

\* what travels over startupPortCh and startupErrCh
NoMsg == [ch |-> "none", port |-> 0, err |-> "nil"]
PortMsg(n) == [ch |-> "port", port |-> n, err |-> "nil"]
ErrMsg(e) == [ch |-> "err", port |-> 0, err |-> e]

ErrParsePort == "could not parse port from mongod log line"
ErrInUse == "mongod startup failed, address in use"
ErrRunning == "mongod startup failed, already running"
ErrPermission == "mongod startup failed, permission denied"
ErrNoDataDir == "mongod startup failed, data directory not found"
ErrShutDown == "mongod startup failed, server shut down"
ErrExited == "mongod exited before startup completed"
ErrTimeout == "timed out waiting for mongod to start"

\* the scan loop with the address-in-use test moved before the ready test
ClassifyInUseFirst(line) ==
    LET downcaseLine == ToLower(line) IN
    IF reAlreadyInUse(downcaseLine) THEN ErrMsg(ErrInUse)
    ELSE IF reReadyMatch(downcaseLine)
    THEN LET a == Atoi(reReadyCapture(downcaseLine)) IN
         IF a.ok THEN PortMsg(a.n) ELSE ErrMsg(ErrParsePort)
    ELSE IF reAlreadyRunning(downcaseLine) THEN ErrMsg(ErrRunning)
    ELSE IF rePermissionDenied(downcaseLine) THEN ErrMsg(ErrPermission)
    ELSE IF reDataDirectoryNotFound(downcaseLine) THEN ErrMsg(ErrNoDataDir)
    ELSE IF reShuttingDown(downcaseLine) THEN ErrMsg(ErrShutDown)
    ELSE NoMsg

\* the body of `if !haveSentMessage { ... }`: the message one line produces
Classify(line) ==
    LET downcaseLine == ToLower(line) IN
    IF reReadyMatch(downcaseLine)
    THEN LET a == Atoi(reReadyCapture(downcaseLine)) IN
         IF a.ok THEN PortMsg(a.n) ELSE ErrMsg(ErrParsePort)
    ELSE IF reAlreadyInUse(downcaseLine) THEN ErrMsg(ErrInUse)
    ELSE IF reAlreadyRunning(downcaseLine) THEN ErrMsg(ErrRunning)
    ELSE IF rePermissionDenied(downcaseLine) THEN ErrMsg(ErrPermission)
    ELSE IF reDataDirectoryNotFound(downcaseLine) THEN ErrMsg(ErrNoDataDir)
    ELSE IF reShuttingDown(downcaseLine) THEN ErrMsg(ErrShutDown)
    ELSE NoMsg

\* the rule table of the readiness monitor, in its order of priority
RuleOrder == <<"ready", "inuse", "running", "permission", "nodatadir",
               "shutdown">>

\* the line, whatever its letter case, matches the pattern of the rule
RuleHolds(r, line) ==
    LET s == ToLower(line) IN
    CASE r = "ready" -> reReadyMatch(s)
      [] r = "inuse" -> reAlreadyInUse(s)
      [] r = "running" -> reAlreadyRunning(s)
      [] r = "permission" -> rePermissionDenied(s)
      [] r = "nodatadir" -> reDataDirectoryNotFound(s)
      [] r = "shutdown" -> reShuttingDown(s)

\* the first rule of the table the line matches
FirstRule(line) ==
    LET hits == {i \in 1..Len(RuleOrder) : RuleHolds(RuleOrder[i], line)} IN
    IF hits = {} THEN "none"
    ELSE RuleOrder[CHOOSE i \in hits : \A j \in hits : i <= j]

\* the scan loop without its `if !haveSentMessage`
LineIsClassifiedAlways(have) == TRUE

\* `if !haveSentMessage` in the scan loop: is the line classified at all
LineIsClassified(have) == ~have

\* `haveSentMessage = true` after each send of the scan loop
FlagAfterSend(msg) == TRUE

\* the code after the scan loop without its `if !haveSentMessage`
ExitIsReportedAlways(have) == TRUE

\* `if !haveSentMessage` after the scan loop: is the exit error sent
ExitIsReported(have) == ~have

\* ------------------------------------------------- processes and directory
NoServer == [valid |-> FALSE, port |-> 0]
NoErr == "nil"
Returned(server, err) == [server |-> server, err |-> err]
NotReturned == Returned(NoServer, NoErr)

Resources == [mongod |-> mongod, watcher |-> watcher, dbDir |-> dbDir]

\* one call of the cleanup code and whether it returned nil
Call(op, ok) == [op |-> op, ok |-> ok]

\* cmd.Process.Kill, watcherCmd.Process.Kill and os.RemoveAll(dbDir): a call
\* that returns an error changes nothing
ApplyCall(res, c) ==
    CASE c.op = "kill" ->
           [res EXCEPT !.mongod = IF c.ok /\ @ = "running" THEN "dead" ELSE @]
      [] c.op = "killWatcher" ->
           [res EXCEPT !.watcher = IF c.ok /\ @ = "running" THEN "dead" ELSE @]
      [] c.op = "removeAll" ->
           [res EXCEPT !.dbDir = IF c.ok /\ @ = "exists" THEN "removed" ELSE @]

RECURSIVE ApplyCalls(_, _)
ApplyCalls(res, calls) ==
    IF calls = <<>> THEN res
    ELSE ApplyCalls(ApplyCall(res, Head(calls)), Tail(calls))

\* the results the operating system gives to the three kinds of call
OsResults == [kill : BOOLEAN, killWatcher : BOOLEAN, removeAll : BOOLEAN]

WithResults(ops, os) == [i \in 1..Len(ops) |-> Call(ops[i], os[ops[i]])]

\* ---------------------------------------------------------- the launcher
\* the failure path after cmd.Start failed
StartFailurePath == <<"removeAll">>

\* the failure path of monitor.RunMonitor without its Kill
MonitorFailurePathWithoutKill == <<"removeAll">>

\* the failure path after monitor.RunMonitor failed
MonitorFailurePath == <<"kill", "removeAll">>

\* monitor.RunMonitor with its two arguments exchanged
MonitorArgsSwapped == [owner |-> "mongod", child |-> "launcher"]

\* monitor.RunMonitor(os.Getpid(), cmd.Process.Pid)
MonitorArgs == [owner |-> "launcher", child |-> "mongod"]

\* the select statement whose timeout case lacks its return
SelectCaseTimeoutGoesOn(ev, msg) ==
    CASE ev = "port" -> [goOn |-> TRUE, port |-> msg.port, err |-> NoErr,
                         calls |-> <<>>]
      [] ev = "failure" -> [goOn |-> FALSE, port |-> 0, err |-> msg.err,
                            calls |-> <<"kill", "removeAll">>]
      [] ev = "timeout" -> [goOn |-> TRUE, port |-> 0, err |-> NoErr,
                            calls |-> <<"kill", "removeAll">>]

\* the select statement whose timeout case lacks its os.RemoveAll
SelectCaseTimeoutKeepsDir(ev, msg) ==
    CASE ev = "port" -> [goOn |-> TRUE, port |-> msg.port, err |-> NoErr,
                         calls |-> <<>>]
      [] ev = "failure" -> [goOn |-> FALSE, port |-> 0, err |-> msg.err,
                            calls |-> <<"kill", "removeAll">>]
      [] ev = "timeout" -> [goOn |-> FALSE, port |-> 0, err |-> ErrTimeout,
                            calls |-> <<"kill">>]

\* the three cases of the select statement: does the launcher go on, which
\* error does it return, and which calls does it make before returning
SelectCase(ev, msg) ==
    CASE ev = "port" -> [goOn |-> TRUE, port |-> msg.port, err |-> NoErr,
                         calls |-> <<>>]
      [] ev = "failure" -> [goOn |-> FALSE, port |-> 0, err |-> msg.err,
                            calls |-> <<"kill", "removeAll">>]
      [] ev = "timeout" -> [goOn |-> FALSE, port |-> 0, err |-> ErrTimeout,
                            calls |-> <<"kill", "removeAll">>]

\* the replica code: the calls made before returning the error of a step
ReplicaFailurePath(step) == <<>>

ReplicaSteps == <<"connect", "ping", "replSetInitiate", "disconnect">>

\* return &Server{...}, nil
NewServer(p) == Returned([valid |-> TRUE, port |-> p], NoErr)

\* Server.Stop: the calls it makes, given what the operating system answers
StopCalls(os) ==
    IF ~os.kill THEN <<"kill">>
    ELSE IF ~os.killWatcher THEN <<"kill", "killWatcher">>
    ELSE <<"kill", "killWatcher", "removeAll">>

\* Server.Stop ending the program when the mongod cannot be killed
StopIsFatalOnKillError(os) == ~os.kill

\* Server.Stop logs every error with Warnf and returns
StopIsFatal(os) == FALSE

\* ------------------------------------------------------------------- Init
\* ============================================================ the cache
\* mongobin.GetOrDownloadMongod: the tarball of a URL is downloaded and the
\* required files are extracted under a directory of the cache root.
\*
\* A file name is a sequence of pieces of text; the name is the pieces
\* joined as they are.  A URL is a string; what the code computes from it
\* (last path element, checksum) is tabulated for the URLs of the model.
ServerUrl == "https://fastdl.mongodb.org/osx/mongodb-osx-ssl-x86_64-4.0.5.tgz"
ShellUrl == "https://downloads.mongodb.com/compass/mongosh-1.1.8-linux-x64.tgz"
Urls == {"", ServerUrl, ShellUrl}

\* path.Base(urlParsed.Path)
PathBase(u) ==
    CASE u = ServerUrl ->
            <<"mongodb-osx-ssl-x86_64-4", ".", "0", ".", "5", ".", "tgz">>
      [] u = ShellUrl ->
            <<"mongosh-1", ".", "1", ".", "8-linux-x64", ".", "tgz">>
      [] OTHER -> <<".">>

\* hex.EncodeToString(sha256(urlStr))[0:10]
Sha256Hex10(u) ==
    CASE u = ServerUrl -> "d50ef2155b"
      [] u = ShellUrl -> "e525a2d2a0"
      [] OTHER -> "e3b0c44298"

\* the pieces matched by [^a-zA-Z0-9_-]
UnsafePieces == {".", "/", ":"}

sanitizeFilename(s) ==
    [i \in 1..Len(s) |-> IF s[i] \in UnsafePieces THEN "_" ELSE s[i]]

\* <basename>_<hash>
directoryNameForURL(u) ==
    [base |-> sanitizeFilename(PathBase(u)), hash |-> Sha256Hex10(u)]

mongodFiles == << <<"bin/", "mongod">> >>
mongoshFiles == << <<"bin/", "mongocryptd-", "mongosh">>, <<"bin/", "mongosh">> >>

Range(s) == {s[i] : i \in 1..Len(s)}
FileNames == Range(mongodFiles) \cup Range(mongoshFiles)
Dirs == {directoryNameForURL(u) : u \in Urls}
\* path.Join(dirPath, f)
Join(dir, f) == <<dir, f>>
Paths == {Join(d, f) : d \in Dirs, f \in FileNames}

\* strings.HasSuffix
HasSuffix(target, v) ==
    /\ Len(v) <= Len(target)
    /\ SubSeq(target, Len(target) - Len(v) + 1, Len(target)) = v

suffixInArray(target, list) ==
    LET hits == {i \in 1..Len(list) : HasSuffix(target, list[i])} IN
    IF hits = {} THEN [v |-> <<>>, ok |-> FALSE]
    ELSE [v |-> list[CHOOSE i \in hits : \A j \in hits : i <= j], ok |-> TRUE]

\* the tarballs the model serves
ReadmeEntry == <<"mongodb-osx/", "README">>
MongodEntry == <<"mongodb-osx/", "bin/", "mongod">>
CryptdEntry == <<"mongosh/", "bin/", "mongocryptd-", "mongosh">>
MongoshEntry == <<"mongosh/", "bin/", "mongosh">>
LegacyEntry == <<"mongosh/", "legacy/", "bin/", "mongosh">>
\* a good pair, a shell tarball with one required name twice and the other
\* missing, and a pair that lacks required files
Archives ==
    { [u \in {ServerUrl, ShellUrl} |->
          IF u = ServerUrl THEN <<ReadmeEntry, MongodEntry>>
          ELSE <<CryptdEntry, MongoshEntry>>],
      [u \in {ServerUrl, ShellUrl} |->
          IF u = ServerUrl THEN <<ReadmeEntry, MongodEntry>>
          ELSE <<MongoshEntry, LegacyEntry>>],
      [u \in {ServerUrl, ShellUrl} |->
          IF u = ServerUrl THEN <<ReadmeEntry>> ELSE <<MongoshEntry>>] }

Callers == {"first", "second"}
Builds == {"extractURLToDest", "saveFile"}

NoFile == [content |-> "none", exec |-> FALSE, mtime |-> 0, from |-> ""]
\* Afs.Exists
Exists(p) == files[p].content # "none"

ErrGet == "error getting tarball"
ErrNoBinary == "did not find a mongod binary in the tar"
ErrExtract == "error writing mongod binary to the temp file"
ErrCreate == "creating mongod binary"
ErrCopy == "error copying mongod binary"
ErrWriting == "error writing mongod binary"

NoPaths == [Mongod |-> <<>>, Mongosh |-> <<>>]
MongoPaths(dirPath) == [Mongod |-> Join(dirPath, mongodFiles[1]),
                        Mongosh |-> Join(dirPath, mongoshFiles[2])]

IdleCall ==
    [pc |-> "idle", urlStr |-> "", mongoshUrl |-> "", force |-> FALSE,
     dirPath |-> directoryNameForURL(""), todo |-> <<>>, pos |-> 0,
     filesFound |-> 0, fName |-> <<>>, paths |-> NoPaths, err |-> NoErr,
     hit |-> FALSE, sawIncomplete |-> FALSE, gets |-> {}, writes |-> 0,
     after |-> {}, renameErr |-> "none"]

ColdCache ==
    /\ files = [p \in Paths |-> NoFile]
    /\ callState = [c \in Callers |-> IdleCall]
    /\ archive \in Archives
    /\ build \in Builds

CacheIdle ==
    /\ files = [p \in Paths |-> NoFile]
    /\ callState = [c \in Callers |-> IdleCall]
    /\ archive = [u \in {ServerUrl, ShellUrl} |-> <<>>]
    /\ build = "extractURLToDest"

\* urlToUse
UrlToUse(urlStr, mongoshUrl) == IF urlStr # "" THEN urlStr ELSE mongoshUrl

ReqFiles(urlStr, mongoshUrl) ==
    (IF urlStr # "" THEN mongodFiles ELSE <<>>)
        \o (IF mongoshUrl # "" THEN mongoshFiles ELSE <<>>)

\* the callState of extractURLToDest after a cache miss, in order
Extractions(urlStr, mongoshUrl) ==
    (IF urlStr # "" THEN <<[url |-> urlStr, files |-> mongodFiles]>>
     ELSE <<>>)
        \o (IF mongoshUrl # "" THEN <<[url |-> mongoshUrl,
                                       files |-> mongoshFiles]>>
            ELSE <<>>)

CacheIsCheckedNever(force) == FALSE

\* the cache check is skipped when force is set
CacheIsChecked(force) == ~force

FilesMissing(dirPath, req) ==
    \E i \in 1..Len(req) : ~Exists(Join(dirPath, req[i]))

\* the local variables of extractURLToDest are gone when the call returns
Leave(call) ==
    [call EXCEPT !.pc = "done", !.todo = <<>>, !.pos = 0, !.filesFound = 0,
                 !.fName = <<>>]
\* return mp, nil
ReturnPaths(call) == [Leave(call) EXCEPT !.paths = MongoPaths(call.dirPath)]
\* return nil, err
ReturnError(call, e) == [Leave(call) EXCEPT !.err = e]

\* extractURLToDest from http.Get to the next required file extracted to
\* a scratch file and made executable, and the code of
\* GetOrDownloadMongod between two calls of extractURLToDest.  Nothing of
\* this touches the cache directory.  netOk: http.Get and the copy of the
\* body to a scratch file succeed.
RECURSIVE Scan(_, _), HttpGet(_, _)
\* the end of one round of the loop over the entries of the tarball
EndOfRound(call, netOk) ==
    IF call.filesFound # Len(Head(call.todo).files) THEN Scan(call, netOk)
    ELSE IF Tail(call.todo) = <<>> THEN ReturnPaths(call)
    ELSE HttpGet([call EXCEPT !.todo = Tail(@)], netOk)

\* tarReader.Next() until an entry is a required file
Scan(call, netOk) ==
    LET entries == archive[Head(call.todo).url] IN
    IF call.pos > Len(entries) THEN ReturnError(call, ErrNoBinary)
    ELSE LET m == suffixInArray(entries[call.pos], Head(call.todo).files)
             next == [call EXCEPT !.pos = @ + 1] IN
         IF m.ok
         THEN [next EXCEPT !.pc = "rename", !.fName = m.v,
                           !.filesFound = @ + 1]
         ELSE EndOfRound(next, netOk)

HttpGet(call, netOk) ==
    LET got == [call EXCEPT !.gets = @ \cup {Head(call.todo).url}] IN
    IF netOk
    THEN Scan([got EXCEPT !.pos = 1, !.filesFound = 0], netOk)
    ELSE ReturnError(got, ErrGet)

\* GetOrDownloadMongod up to the first move of a file into the cache
Enter(c, urlStr, mongoshUrl, force) ==
    /\ callState[c].pc = "idle"
    /\ \E netOk \in BOOLEAN :
          LET dirPath == directoryNameForURL(UrlToUse(urlStr, mongoshUrl))
              req == ReqFiles(urlStr, mongoshUrl)
              call == [IdleCall EXCEPT
                          !.urlStr = urlStr, !.mongoshUrl = mongoshUrl,
                          !.force = force, !.dirPath = dirPath,
                          !.after = {d \in Callers :
                                        callState[d].pc = "done"}]
              todo == Extractions(urlStr, mongoshUrl) IN
          callState' = [callState EXCEPT ![c] =
              IF CacheIsChecked(force) /\ ~FilesMissing(dirPath, req)
              THEN ReturnPaths([call EXCEPT
                      !.hit = TRUE,
                      !.sawIncomplete =
                          \E i \in 1..Len(req) :
                             files[Join(dirPath, req[i])].content
                                 # "complete"])
              ELSE IF todo = <<>> THEN ReturnPaths(call)
              ELSE HttpGet([call EXCEPT !.todo = todo], netOk)]
    /\ UNCHANGED <<files, archive, build>>

\* a caller calls GetOrDownloadMongod
CheckCache(c) ==
    /\ \E urlStr \in {"", ServerUrl}, mongoshUrl \in {"", ShellUrl},
          force \in BOOLEAN : Enter(c, urlStr, mongoshUrl, force)
    /\ UNCHANGED <<launchVars, configVars, resolverVars>>

\* MkdirAll, TempFile, io.Copy or Chmod fails
ExtractFails(c) ==
    /\ callState[c].pc = "rename"
    /\ callState' = [callState EXCEPT ![c] = ReturnError(@, ErrExtract)]
    /\ UNCHANGED <<files, archive, build>>
    /\ UNCHANGED <<launchVars, configVars, resolverVars>>

\* what Afs.Rename can answer: done; an *os.LinkError for a move across
\* filesystems; an *os.LinkError for another reason; an error of another
\* type (a filesystem other than afero.OsFs)
RenameResults == {"ok", "cross-device", "link error", "other error"}
IsLinkError(r) == r \in {"cross-device", "link error"}

\* what the file at the final path is after a write of the given content
Written(old, content, exec, url) ==
    [content |-> content, exec |-> exec, mtime |-> old.mtime + 1,
     from |-> url]

\* the code after a failed rename that is not an *os.LinkError
AfterOtherError(b, call, netOk) ==
    IF b = "extractURLToDest" THEN ReturnError(call, ErrWriting)
    ELSE EndOfRound(call, netOk)

\* Afs.Rename(mongodTmpFile.Name(), destPath)
Rename(c) ==
    /\ callState[c].pc = "rename"
    /\ \E r \in RenameResults, netOk \in BOOLEAN :
          LET call == [callState[c] EXCEPT !.renameErr = r]
              dest == Join(call.dirPath, call.fName) IN
          IF r = "ok"
          THEN /\ files' = [files EXCEPT ![dest] =
                               Written(@, "complete", TRUE,
                                       Head(call.todo).url)]
               /\ callState' = [callState EXCEPT ![c] =
                     EndOfRound([call EXCEPT !.writes = @ + 1], netOk)]
          ELSE /\ files' = files
               /\ callState' = [callState EXCEPT ![c] =
                     IF IsLinkError(r)
                     THEN [call EXCEPT !.pc = "create"]
                     ELSE AfterOtherError(build, call, netOk)]
    /\ UNCHANGED <<archive, build>>
    /\ UNCHANGED <<launchVars, configVars, resolverVars>>

\* Afs.Create(destPath): a new file is not executable, a file that is
\* there is truncated and keeps its mode
Create(c) ==
    /\ callState[c].pc = "create"
    /\ \E ok \in BOOLEAN :
          LET call == callState[c]
              dest == Join(call.dirPath, call.fName) IN
          IF ok
          THEN /\ files' = [files EXCEPT ![dest] =
                               Written(@, "empty", @.exec,
                                       Head(call.todo).url)]
               /\ callState' = [callState EXCEPT ![c] =
                     [call EXCEPT !.pc = "copy", !.writes = @ + 1]]
          ELSE /\ files' = files
               /\ callState' = [callState EXCEPT ![c] =
                     ReturnError(call, ErrCreate)]
    /\ UNCHANGED <<archive, build>>
    /\ UNCHANGED <<launchVars, configVars, resolverVars>>

\* the copy of the scratch file to the file just created.
\* extractURLToDest reads the scratch file through the handle it has
\* closed: nothing is copied, the error of the copy is dropped and the
\* error of the rename is returned.  saveFile reads the scratch file by
\* name and writes what it read.
CopyWrites(b) == b = "saveFile"

CopyResult(b, call, ok, netOk) ==
    IF b = "extractURLToDest" THEN ReturnError(call, ErrWriting)
    ELSE IF ok THEN EndOfRound(call, netOk)
    ELSE ReturnError(call, ErrCopy)

Copy(c) ==
    /\ callState[c].pc = "copy"
    /\ \E ok \in BOOLEAN, netOk \in BOOLEAN :
          LET call == callState[c]
              dest == Join(call.dirPath, call.fName)
              wrote == CopyWrites(build) /\ ok IN
          /\ files' = IF wrote
                      THEN [files EXCEPT ![dest] =
                               Written(@, "complete", @.exec,
                                       Head(call.todo).url)]
                      ELSE files
          /\ callState' = [callState EXCEPT ![c] =
                CopyResult(build,
                           [call EXCEPT !.writes = IF wrote THEN @ + 1 ELSE @],
                           ok, netOk)]
    /\ UNCHANGED <<archive, build>>
    /\ UNCHANGED <<launchVars, configVars, resolverVars>>

CacheNext ==
    \/ \E c \in Callers : CheckCache(c)
    \/ \E c \in Callers : ExtractFails(c)
    \/ \E c \in Callers : Rename(c)
    \/ \E c \in Callers : Create(c)
    \/ \E c \in Callers : Copy(c)

\* ===================================================== the download spec
\* mongobin.MakeDownloadSpec and DownloadSpec.GetDownloadURL.  A version
\* is a string; its components are the texts between the dots.  The host
\* is what the package variables GoOS, GoArch, EtcOsRelease and
\* EtcRedhatRelease stand for: the two names of runtime and the contents
\* of the two files.

\* the numbers the components of the model spell; strconv.Atoi takes a
\* sign
Numbers == (-1..27) \cup {2018}
Numerals == {ToString(n) : n \in Numbers}

\* numbers spelled with a leading zero
ZeroPadded == [t \in {"03", "04"} |-> IF t = "03" THEN 3 ELSE 4]

\* components that are no numbers
NotNumerals == {"", "d"}

\* strconv.Atoi on a component
AtoiComponent(t) ==
    IF t \in Numerals
    THEN [ok |-> TRUE, n |-> CHOOSE n \in Numbers : ToString(n) = t]
    ELSE IF t \in DOMAIN ZeroPadded THEN [ok |-> TRUE, n |-> ZeroPadded[t]]
    ELSE [ok |-> FALSE, n |-> 0]

RECURSIVE JoinDots(_)
\* strings.Join(parts, ".")
JoinDots(parts) ==
    IF Len(parts) = 1 THEN parts[1]
    ELSE parts[1] \o "." \o JoinDots(Tail(parts))

Majors == {2, 3, 4, 5, 6}
Minors == {0, 1, 2, 3, 4, 6, 8}
Patches == {0, 1, 2, 3, 4, 5, 6, 7, 8, 10, 12, 13, 26, 27}

\* the components of the versions x.y.z
WellFormed ==
    {<<ToString(a), ToString(b), ToString(c)>> :
        a \in Majors, b \in Minors, c \in Patches}

\* the components of the other version strings
Malformed ==
    { <<"">>, <<"asdf">>, <<"4">>, <<"4", "0">>, <<"d", "4", "0">>,
      <<"4", "d", "0">>, <<"4", "0", "d">>, <<"4", "0", "">>,
      <<"2", "d", "0">>, <<"4", "2", "1", "0">>, <<"3", "0", "2", "d">>,
      <<"2", "0", "d">>, <<"d", "d", "d">>, <<"4", "d", "d">>,
      <<"4", "-1", "0">>, <<"3", "2", "-1">>, <<"4", "04", "03">> }

\* the components of the VERSION_ID values of the os-release files
ReleaseIds ==
    { <<"22", "04">>, <<"20", "04">>, <<"18", "04">>, <<"16", "04">>,
      <<"14", "04">>, <<"12", "04">>, <<"15", "3">>, <<"12", "5">>,
      <<"11", "4">>, <<"8">>, <<"8", "2">>, <<"7">>, <<"6">>, <<"11">>,
      <<"10">>, <<"9">>, <<"2">>, <<"2018", "03">>, <<"">>, <<"d">> }

\* the components of further version strings a caller may put into the
\* Options next to a download URL
LaunchOnly == { <<"7", "0", "1">>, <<"17", "0", "1">> }

Dotted == WellFormed \cup Malformed \cup ReleaseIds \cup LaunchOnly

\* the version strings of the model
Versions == {JoinDots(p) : p \in WellFormed \cup Malformed}

\* strings.Split(s, "."): the components whose join is s
SplitTable ==
    [s \in {JoinDots(p) : p \in Dotted} |->
        CHOOSE p \in Dotted : JoinDots(p) = s]

Split(s) == SplitTable[s]

\* an error value: its type, the version it quotes, its msg
NoError == [type |-> "nil", version |-> "", msg |-> NoErr]
UnsupportedMongoVersionError(version, msg) ==
    [type |-> "UnsupportedMongoVersionError", version |-> version,
     msg |-> msg]
UnsupportedSystemError(msg) ==
    [type |-> "UnsupportedSystemError", version |-> "", msg |-> msg]

ErrVersionFormAsMajor == "Could not parse major version"

ErrVersionForm == "MongoDB version number must be in the form x.y.z"
ErrMajor == "Could not parse major version"
ErrMinor == "Could not parse minor version"
ErrPatch == "Could not parse patch version"
ErrVersionOld == "Only Mongo version 3.2 and above are supported"
ErrGenericLinux ==
    "MongoDB 4.2 removed support for generic linux tarballs. Specify the "
    \o "download URL manually or use a supported distro. See: "
    \o "https://www.mongodb.com/blog/post/"
    \o "a-proposal-to-endoflife-our-generic-linux-tar-packages"
ErrArm64Floor == "arm64 support was introduced in Mongo 3.4.0"

\* len(versionParts) < 3
TooShort(versionParts) == Len(versionParts) < 3

\* the check of line 267
TooOldBelowThree(majorVersion, minorVersion) == majorVersion < 3

TooOld(majorVersion, minorVersion) ==
    (majorVersion < 3) \/ ((majorVersion = 3) /\ (minorVersion < 2))

parseVersionAgeFirst(version) ==
    LET versionParts == Split(version)
        maj == AtoiComponent(versionParts[1])
        min == AtoiComponent(versionParts[2])
        patch == AtoiComponent(versionParts[3])
        Fail(msg) == [v |-> <<>>,
                      err |-> UnsupportedMongoVersionError(version, msg)] IN
    IF TooShort(versionParts) THEN Fail(ErrVersionForm)
    ELSE IF ~maj.ok THEN Fail(ErrMajor)
    ELSE IF maj.n < 3 THEN Fail(ErrVersionOld)
    ELSE IF ~min.ok THEN Fail(ErrMinor)
    ELSE IF ~patch.ok THEN Fail(ErrPatch)
    ELSE IF TooOld(maj.n, min.n) THEN Fail(ErrVersionOld)
    ELSE [v |-> <<maj.n, min.n, patch.n>>, err |-> NoError]

parseVersion(version) ==
    LET versionParts == Split(version)
        maj == AtoiComponent(versionParts[1])
        min == AtoiComponent(versionParts[2])
        patch == AtoiComponent(versionParts[3])
        Fail(msg) == [v |-> <<>>,
                      err |-> UnsupportedMongoVersionError(version, msg)] IN
    IF TooShort(versionParts) THEN Fail(ErrVersionForm)
    ELSE IF ~maj.ok THEN Fail(ErrMajor)
    ELSE IF ~min.ok THEN Fail(ErrMinor)
    ELSE IF ~patch.ok THEN Fail(ErrPatch)
    ELSE IF TooOld(maj.n, min.n) THEN Fail(ErrVersionOld)
    ELSE [v |-> <<maj.n, min.n, patch.n>>, err |-> NoError]

versionGTE(a, b) ==
    IF a[1] > b[1] THEN TRUE
    ELSE IF a[1] < b[1] THEN FALSE
    ELSE IF a[2] > b[2] THEN TRUE
    ELSE IF a[2] < b[2] THEN FALSE
    ELSE a[3] >= b[3]

\* "%d.%d.%d"
versionString(v) ==
    ToString(v[1]) \o "." \o ToString(v[2]) \o "." \o ToString(v[3])

detectPlatform ==
    CASE host.GoOS = "darwin" -> [platform |-> "osx", err |-> NoError]
      [] host.GoOS = "linux" -> [platform |-> "linux", err |-> NoError]
      [] OTHER ->
            [platform |-> "",
             err |-> UnsupportedSystemError(
                        "your platform, " \o host.GoOS
                        \o ", is not supported")]

osNameFromUbuntuRelease(majorVersion, mongoVersion) ==
    IF majorVersion >= 22 /\ versionGTE(mongoVersion, <<4, 0, 1>>)
    THEN "ubuntu2204"
    ELSE IF majorVersion >= 20 /\ versionGTE(mongoVersion, <<4, 0, 1>>)
    THEN "ubuntu2004"
    ELSE IF majorVersion >= 18 /\ versionGTE(mongoVersion, <<4, 0, 1>>)
    THEN "ubuntu1804"
    ELSE IF majorVersion >= 16 /\ versionGTE(mongoVersion, <<3, 2, 7>>)
    THEN "ubuntu1604"
    ELSE IF majorVersion >= 14 THEN "ubuntu1404"
    ELSE ""

osNameFromDebianRelease(majorVersion, mongoVersion) ==
    IF majorVersion >= 11 /\ versionGTE(mongoVersion, <<5, 0, 8>>)
    THEN "debian11"
    ELSE IF majorVersion >= 10 /\ versionGTE(mongoVersion, <<4, 2, 1>>)
    THEN "debian10"
    ELSE IF majorVersion >= 9 /\ versionGTE(mongoVersion, <<3, 6, 5>>)
    THEN "debian92"
    ELSE IF majorVersion >= 8 /\ versionGTE(mongoVersion, <<3, 2, 8>>)
    THEN "debian81"
    ELSE ""

osNameFromAmznRelease(majorVersion, mongoVersion) ==
    IF majorVersion = 2 /\ versionGTE(mongoVersion, <<4, 0, 0>>)
    THEN "amazon2"
    ELSE "amazon"

\* strings.Contains(redhatRelease, "release 6")
osNameFromRedhatRelease(redhatRelease) ==
    IF Contains(redhatRelease, "release 6") THEN "rhel62" ELSE ""

osNameFromOsRelease(osRelease, mongoVersion) ==
    LET id == osRelease.ID
        major == AtoiComponent(Split(osRelease.VERSION_ID)[1])
        majorVersion == major.n IN
    IF ~major.ok THEN ""
    ELSE CASE id = "ubuntu" ->
                osNameFromUbuntuRelease(majorVersion, mongoVersion)
           [] id = "sles" -> IF majorVersion >= 12 THEN "suse12" ELSE ""
           [] id \in {"centos", "rhel"} ->
                IF majorVersion >= 8 THEN "rhel80"
                ELSE IF majorVersion = 7 THEN "rhel70"
                ELSE ""
           [] id = "debian" ->
                osNameFromDebianRelease(majorVersion, mongoVersion)
           [] id = "amzn" ->
                osNameFromAmznRelease(majorVersion, mongoVersion)
           [] OTHER -> ""

\* a file that cannot be read
Unreadable == [ok |-> FALSE, ID |-> "", VERSION_ID |-> "", text |-> <<>>]
OsRelease(id, versionId) ==
    [ok |-> TRUE, ID |-> id, VERSION_ID |-> versionId, text |-> <<>>]
RedhatRelease(text) ==
    [ok |-> TRUE, ID |-> "", VERSION_ID |-> "", text |-> text]

detectOSName(mongoVersion) ==
    IF host.GoOS # "linux" THEN ""
    ELSE IF host.osRelease.ok
    THEN osNameFromOsRelease(host.osRelease, mongoVersion)
    ELSE IF host.redhatRelease.ok
    THEN osNameFromRedhatRelease(host.redhatRelease.text)
    ELSE ""

\* arm64 below this version is refused for every system
Arm64FloorAtParser == <<3, 2, 0>>

Arm64Floor == <<3, 4, 0>>

\* the OSName entries of the arm64 table: lines 306 to 329
Arm64Table(osName, mongoVersion) ==
    CASE osName = "ubuntu1604" /\ ~versionGTE(mongoVersion, <<4, 0, 27>>) ->
            "arm64"
      [] osName = "ubuntu1804" /\ versionGTE(mongoVersion, <<4, 2, 0>>) ->
            "aarch64"
      [] osName = "ubuntu2004" /\ versionGTE(mongoVersion, <<4, 4, 0>>) ->
            "aarch64"
      [] osName = "ubuntu2204" /\ versionGTE(mongoVersion, <<6, 0, 4>>) ->
            "aarch64"
      [] osName = "amazon2" /\ versionGTE(mongoVersion, <<4, 2, 13>>) ->
            "aarch64"
      [] osName = "rhel82" /\ versionGTE(mongoVersion, <<4, 4, 4>>) ->
            "aarch64"
      [] OTHER -> ""

\* the osx entry of the arm64 table: line 331
Arm64OsxAlways(platform, mongoVersion) == platform = "osx"

Arm64Osx(platform, mongoVersion) ==
    platform = "osx" /\ versionGTE(mongoVersion, <<6, 0, 0>>)

arm64ArchFromOSNameAndVersion(platform, osName, mongoVersion) ==
    LET os == IF osName = "" THEN platform ELSE osName IN
    IF ~versionGTE(mongoVersion, Arm64Floor)
    THEN [arch |-> "", err |-> UnsupportedSystemError(ErrArm64Floor)]
    ELSE IF Arm64Table(osName, mongoVersion) # ""
    THEN [arch |-> Arm64Table(osName, mongoVersion), err |-> NoError]
    ELSE IF Arm64Osx(platform, mongoVersion)
    THEN [arch |-> "arm64", err |-> NoError]
    ELSE [arch |-> "",
          err |-> UnsupportedSystemError(
                     "Mongo doesn't support your environment, " \o os
                     \o "/" \o host.GoArch \o ", on version "
                     \o versionString(mongoVersion))]

detectArch(platform, osName, mongoVersion) ==
    CASE host.GoArch = "amd64" -> [arch |-> "x86_64", err |-> NoError]
      [] host.GoArch = "arm64" ->
            arm64ArchFromOSNameAndVersion(platform, osName, mongoVersion)
      [] OTHER ->
            [arch |-> "",
             err |-> UnsupportedSystemError(
                        "your architecture, " \o host.GoArch
                        \o ", is not supported")]

\* the ssl designator: lines 209 to 213
SSLBuildNeededOnLinuxToo(platform, parsedVersion) ==
    ~versionGTE(parsedVersion, <<4, 2, 0>>)

SSLBuildNeeded(platform, parsedVersion) ==
    platform = "osx" /\ ~versionGTE(parsedVersion, <<4, 2, 0>>)

\* the end of the generic linux tarballs: line 216
GenericLinuxRemovedNever(platform, osName, parsedVersion) == FALSE

GenericLinuxRemoved(platform, osName, parsedVersion) ==
    platform = "linux" /\ osName = ""
    /\ versionGTE(parsedVersion, <<4, 2, 0>>)

\* a nil *DownloadSpec
NoSpec ==
    [Version |-> "", Arch |-> "", SSLBuildNeeded |-> FALSE, Platform |-> "",
     OSName |-> ""]

MakeDownloadSpec(version) ==
    LET parsed == parseVersion(version)
        parsedVersion == parsed.v
        plat == detectPlatform
        platform == plat.platform
        osName == detectOSName(parsedVersion)
        arch == detectArch(platform, osName, parsedVersion)
        Fail(e) == [spec |-> NoSpec, err |-> e] IN
    IF parsed.err # NoError THEN Fail(parsed.err)
    ELSE IF plat.err # NoError THEN Fail(plat.err)
    ELSE IF GenericLinuxRemoved(platform, osName, parsedVersion)
    THEN Fail(UnsupportedSystemError(ErrGenericLinux))
    ELSE IF arch.err # NoError THEN Fail(arch.err)
    ELSE [spec |-> [Version |-> version, Arch |-> arch.arch,
                    SSLBuildNeeded |-> SSLBuildNeeded(platform, parsedVersion),
                    Platform |-> platform, OSName |-> osName],
          err |-> NoError]

\* the archive name: downloadURL.go lines 8 to 26
archiveNameAlwaysTagged(spec) ==
    IF spec.Platform = "linux"
    THEN "mongodb-linux-" \o spec.Arch \o "-" \o spec.OSName \o "-"
         \o spec.Version \o ".tgz"
    ELSE "mongodb-macos-" \o spec.Arch \o "-" \o spec.Version \o ".tgz"

archiveName(spec) ==
    IF spec.Platform = "linux"
    THEN "mongodb-linux-" \o spec.Arch \o "-"
         \o (IF spec.OSName # "" THEN spec.OSName \o "-" ELSE "")
         \o spec.Version \o ".tgz"
    ELSE "mongodb-"
         \o (IF spec.SSLBuildNeeded THEN "osx-ssl-" ELSE "macos-")
         \o spec.Arch \o "-" \o spec.Version \o ".tgz"

GetDownloadURL(spec) ==
    "https://fastdl.mongodb.org/" \o spec.Platform \o "/"
    \o archiveName(spec)

GetShellDownloadURL(spec) == ShellUrl

\* the os-release files of the model
OsReleases ==
    {OsRelease("ubuntu", JoinDots(p)) :
        p \in { <<"22", "04">>, <<"20", "04">>, <<"18", "04">>,
                <<"16", "04">>, <<"14", "04">>, <<"12", "04">>, <<"d">> }}
    \cup {OsRelease("sles", JoinDots(p)) :
            p \in { <<"15", "3">>, <<"12", "5">>, <<"11", "4">> }}
    \cup {OsRelease("centos", JoinDots(p)) : p \in { <<"8">>, <<"7">>, <<"6">> }}
    \cup {OsRelease("rhel", JoinDots(p)) : p \in { <<"8", "2">>, <<"7">> }}
    \cup {OsRelease("debian", JoinDots(p)) :
            p \in { <<"11">>, <<"10">>, <<"9">>, <<"8">>, <<"7">> }}
    \cup {OsRelease("amzn", JoinDots(p)) : p \in { <<"2">>, <<"2018", "03">> }}
    \cup {OsRelease("arch", ""), OsRelease("", "")}

\* the redhat-release files of the model
RedhatReleases ==
    {RedhatRelease(<<"CentOS ", "release 6", ".10 (Final)">>),
     RedhatRelease(<<"Fedora ", "release 38">>)}

GoArchs == {"amd64", "arm64", "386"}

Hosts ==
    [GoOS : {"darwin", "windows"}, GoArch : GoArchs,
     osRelease : {Unreadable}, redhatRelease : {Unreadable}]
    \cup [GoOS : {"darwin"}, GoArch : GoArchs,
          osRelease : {OsRelease("ubuntu", "22.04")},
          redhatRelease : {Unreadable}]
    \cup [GoOS : {"linux"}, GoArch : GoArchs, osRelease : OsReleases,
          redhatRelease : {Unreadable}]
    \cup [GoOS : {"linux"}, GoArch : GoArchs, osRelease : {Unreadable},
          redhatRelease : RedhatReleases \cup {Unreadable}]

\* runtime.GOOS
GOOS == "darwin"

\* the host of the options: runtime.GOOS, amd64, no files
ThisHost ==
    [GoOS |-> GOOS, GoArch |-> "amd64", osRelease |-> Unreadable,
     redhatRelease |-> Unreadable]

NoDownload ==
    [pc |-> "idle", version |-> "", spec |-> NoSpec, err |-> NoError,
     url |-> ""]

ResolverIdle ==
    /\ host = ThisHost
    /\ download = NoDownload

\* a caller is about to resolve a version on a host
ResolverNew ==
    /\ host \in Hosts
    /\ \E version \in Versions :
          download = [NoDownload EXCEPT !.pc = "new", !.version = version]

\* spec, err := MakeDownloadSpec(version)
MakeSpec ==
    /\ download.pc = "new"
    /\ LET r == MakeDownloadSpec(download.version) IN
       download' = [download EXCEPT
                       !.pc = IF r.err = NoError THEN "spec" ELSE "failed",
                       !.spec = r.spec, !.err = r.err]
    /\ UNCHANGED <<host, launchVars, cacheVars, configVars>>

\* url := spec.GetDownloadURL()
GetUrl ==
    /\ download.pc = "spec"
    /\ download' = [download EXCEPT !.pc = "url",
                                    !.url = GetDownloadURL(download.spec)]
    /\ UNCHANGED <<host, launchVars, cacheVars, configVars>>

ResolverNext ==
    \/ MakeSpec
    \/ GetUrl

\* ===================================================== the options
\* Options.fillDefaults and Options.getOrDownloadBinPath.  A string option
\* is "" (not given) or a sample value; a duration is a number of seconds.
\* the default of StartupTimeout, in seconds
DefaultStartupTimeout == 10

ZeroOptions ==
    [MongodBin |-> "", MongoShellBin |-> "", CachePath |-> "",
     DownloadURL |-> "", ShellDownloadURL |-> "", MongoVersion |-> "",
     Port |-> 0, StartupTimeout |-> 0]

\* the Options a caller passes
OptionsGiven ==
    [MongodBin : {"", "/opt/bin/mongod"},
     MongoShellBin : {"", "/opt/bin/mongosh"},
     CachePath : {"", "/opt/cache"},
     DownloadURL : {"", ServerUrl},
     ShellDownloadURL : {"", ShellUrl},
     MongoVersion : {"", "4.0.5", "3.0.2"},
     Port : {0, 27017},
     StartupTimeout : {0, 5}]

\* the environment of the process
Envs ==
    [MEMONGO_MONGOD_BIN : {"", "/env/bin/mongod"},
     MEMONGO_MONGOSH_BIN : {"", "/env/bin/mongosh"},
     MEMONGO_CACHE_PATH : {"", "/env/cache"},
     XDG_CACHE_HOME : {"", "/xdg"},
     MEMONGO_DOWNLOAD_URL : {"", ServerUrl},
     MEMONGO_MONGOD_PORT : {"", "0", "27018", "port"}]

\* getFreePort: the port the system assigned, 0 when the probe failed
FreePortResults == {0, 40001}

ErrNoSource == "one of MongoVersion, DownloadURL, or MongodBin must be given"
ErrParsePortEnv == "error parsing MEMONGO_MONGOD_PORT"
ErrFreePort == "error finding a free port"

\* strconv.Atoi on the values of MEMONGO_MONGOD_PORT
AtoiPort(t) ==
    CASE t = "0" -> [n |-> 0, ok |-> TRUE]
      [] t = "27018" -> [n |-> 27018, ok |-> TRUE]
      [] OTHER -> [n |-> 0, ok |-> FALSE]

IfEmpty(v, w) == IF v = "" THEN w ELSE v

\* path.Join(dir, "memongo")
JoinMemongo(dir) ==
    CASE dir = "/xdg" -> "/xdg/memongo"
      [] dir = "/home/user/Library/Caches" ->
            "/home/user/Library/Caches/memongo"
      [] OTHER -> "/home/user/.cache/memongo"

\* the cache path: lines 76 to 88
DefaultCachePath(o, e) ==
    LET a == IfEmpty(o.CachePath, e.MEMONGO_CACHE_PATH)
        b == IF a = "" /\ e.XDG_CACHE_HOME # ""
             THEN JoinMemongo(e.XDG_CACHE_HOME) ELSE a IN
    IF b # "" THEN b
    ELSE IF GOOS = "darwin" THEN JoinMemongo("/home/user/Library/Caches")
    ELSE JoinMemongo("/home/user/.cache")

Filled(o) == [opts |-> o, err |-> NoErr]
Failed(o, e) == [opts |-> o, err |-> e]

\* the shell URL: lines 105 to 114; made is what MakeDownloadSpec returns
FillShellUrl(o, made) ==
    IF o.MongoShellBin # "" THEN Filled([o EXCEPT !.ShellDownloadURL = ""])
    ELSE IF o.ShellDownloadURL # "" THEN Filled(o)
    ELSE IF made.err # NoError THEN Failed(o, made.err.msg)
    ELSE Filled([o EXCEPT
                    !.ShellDownloadURL = GetShellDownloadURL(made.spec)])

\* the server URL: lines 94 to 104
FillServerUrl(o, made) ==
    IF o.DownloadURL # "" THEN FillShellUrl(o, made)
    ELSE IF o.MongoVersion = "" THEN Failed(o, ErrNoSource)
    ELSE IF made.err # NoError THEN Failed(o, made.err.msg)
    ELSE FillShellUrl([o EXCEPT !.DownloadURL = GetDownloadURL(made.spec)],
                      made)

\* the download URLs: lines 90 to 114
FillUrls(o, e) ==
    LET o1 == [o EXCEPT !.DownloadURL = IfEmpty(@, e.MEMONGO_DOWNLOAD_URL)]
    IN  FillServerUrl(o1, MakeDownloadSpec(o1.MongoVersion))

\* the default of StartupTimeout is set in the branch of the port probe
TimeoutDefaulted(probed) == probed

\* the port and the startup timeout: lines 117 to 144
FillPort(o, e, freePort) ==
    LET fromEnv == AtoiPort(e.MEMONGO_MONGOD_PORT)
        useEnv == o.Port = 0 /\ e.MEMONGO_MONGOD_PORT # ""
        o1 == IF useEnv /\ fromEnv.ok THEN [o EXCEPT !.Port = fromEnv.n]
              ELSE o
        probed == o1.Port = 0
        o2 == IF probed THEN [o1 EXCEPT !.Port = freePort] ELSE o1 IN
    IF useEnv /\ ~fromEnv.ok THEN Failed(o, ErrParsePortEnv)
    ELSE IF probed /\ freePort = 0 THEN Failed(o1, ErrFreePort)
    ELSE Filled([o2 EXCEPT !.StartupTimeout =
                    IF TimeoutDefaulted(probed) /\ @ = 0
                    THEN DefaultStartupTimeout ELSE @])

fillDefaults(o, e, freePort) ==
    LET o1 == [o EXCEPT
                  !.MongodBin = IfEmpty(@, e.MEMONGO_MONGOD_BIN),
                  !.MongoShellBin = IfEmpty(@, e.MEMONGO_MONGOSH_BIN)]
        needed == o1.MongodBin = "" \/ o1.MongoShellBin = ""
        urls == IF needed
                THEN FillUrls([o1 EXCEPT !.CachePath = DefaultCachePath(o1, e)],
                              e)
                ELSE Filled(o1) IN
    IF urls.err # NoErr THEN urls ELSE FillPort(urls.opts, e, freePort)

\* the paths getOrDownloadBinPath returns: lines 158 to 165
Overridden(o, paths) ==
    [Mongod |-> IfEmpty(o.MongodBin, paths.Mongod),
     Mongosh |-> IfEmpty(o.MongoShellBin, paths.Mongosh)]

\* the caller of the options specification
Caller == "first"

\* a cache in which a call for both URLs has succeeded before
WarmFiles ==
    [p \in Paths |->
        IF p[1] # directoryNameForURL(ServerUrl) THEN NoFile
        ELSE [content |-> "complete", exec |-> TRUE, mtime |-> 1,
              from |-> IF p[2] = mongodFiles[1] THEN ServerUrl
                       ELSE ShellUrl]]

ConfigIdle ==
    /\ filled = ZeroOptions
    /\ cfgPc = "idle"
    /\ cfgErr = NoErr
    /\ binPath = NoPaths

OptionsNew ==
    /\ filled = ZeroOptions
    /\ cfgPc = "new"
    /\ cfgErr = NoErr
    /\ binPath = NoPaths
    /\ files \in {[p \in Paths |-> NoFile], WarmFiles}
    /\ callState = [c \in Callers |-> IdleCall]
    /\ archive \in Archives
    /\ build = "extractURLToDest"

\* err := opts.fillDefaults()
FillDefaults ==
    /\ cfgPc = "new"
    /\ \E o \in OptionsGiven, e \in Envs, freePort \in FreePortResults :
          LET r == fillDefaults(o, e, freePort) IN
          /\ filled' = r.opts
          /\ cfgErr' = r.err
          /\ cfgPc' = IF r.err = NoErr THEN "filled" ELSE "done"
    /\ UNCHANGED <<binPath, cacheVars, launchVars, resolverVars>>

\* getOrDownloadBinPath calls mongobin.GetOrDownloadMongod
CallGetOrDownload ==
    /\ cfgPc = "filled"
    /\ Enter(Caller, filled.DownloadURL, filled.ShellDownloadURL, FALSE)
    /\ cfgPc' = "fetching"
    /\ UNCHANGED <<filled, cfgErr, binPath, launchVars, resolverVars>>

\* GetOrDownloadMongod has returned to getOrDownloadBinPath
BinPathReturns ==
    /\ cfgPc = "fetching" /\ callState[Caller].pc = "done"
    /\ cfgPc' = "done"
    /\ cfgErr' = callState[Caller].err
    /\ binPath' = IF callState[Caller].err # NoErr THEN NoPaths
                  ELSE Overridden(filled, callState[Caller].paths)
    /\ UNCHANGED <<filled, cacheVars, launchVars, resolverVars>>

ConfigNext ==
    \/ FillDefaults
    \/ CallGetOrDownload
    \/ ExtractFails(Caller)
    \/ Rename(Caller)
    \/ Create(Caller)
    \/ Copy(Caller)
    \/ BinPathReturns

\* ------------------------------------------------------- the launcher
InitWith(o) ==
    /\ opts = o
    /\ args = <<>>
    /\ pc = "fill"
    /\ ret = NotReturned
    /\ port = 0
    /\ observed = <<>>
    /\ ownerAlive = TRUE
    /\ mongod = "none"
    /\ watcher = "none"
    /\ watchArgs = [owner |-> "none", child |-> "none"]
    /\ dbDir = "none"
    /\ killedBy = "none"
    /\ cleanup = <<>>
    /\ stopLog = <<>>
    /\ stopCalls = 0
    /\ fatal = FALSE
    /\ hpc = "none"
    /\ haveSentMessage = FALSE
    /\ pending = NoMsg
    /\ sentLog = <<>>
    /\ matched = FALSE
    /\ lastLine = <<>>
    /\ stream = <<>>
    /\ written = 0
    /\ closed = FALSE
    /\ calleeErr = NoErr
    /\ errStream = <<>>
    /\ errLog = <<>>

PlainOptions ==
    [replica |-> FALSE, auth |-> FALSE, MongoVersion |-> "4.0.5",
     Port |-> 27017]

\* the Options after fillDefaults, as far as the launcher reads them
LaunchOptions(versions, ports) ==
    [replica : BOOLEAN, auth : BOOLEAN, MongoVersion : versions,
     Port : ports]

Init ==
    /\ \E o \in LaunchOptions({"4.0.5"}, {27017}) : InitWith(o)
    /\ CacheIdle
    /\ ConfigIdle
    /\ ResolverIdle

\* --------------------------------------------------- StartWithOptions
ReturnErr(e) ==
    /\ pc' = "returned"
    /\ ret' = Returned(NoServer, e)

SetResources(res) ==
    /\ mongod' = res.mongod
    /\ watcher' = res.watcher
    /\ dbDir' = res.dbDir
    /\ killedBy' = IF mongod = "running" /\ res.mongod = "dead"
                   THEN "launcher" ELSE killedBy

\* the errors opts.fillDefaults and opts.getOrDownloadBinPath can return
FillErrors == {ErrNoSource, ErrVersionForm, ErrVersionOld, ErrParsePortEnv,
               ErrFreePort}
FetchErrors == {ErrGet, ErrNoBinary, ErrExtract, ErrCreate, ErrCopy,
                ErrWriting}

ForwardedAsStartError(e) == "could not start mongod"

\* return nil, err
Forwarded(e) == e

\* opts.fillDefaults and opts.getOrDownloadBinPath: the second is called
\* when the first has returned nil
FillAndFetch ==
    /\ ownerAlive /\ pc = "fill"
    /\ \E fillErr \in FillErrors \cup {NoErr},
          fetchErr \in FetchErrors \cup {NoErr} :
          LET e == IF fillErr # NoErr THEN fillErr ELSE fetchErr IN
          /\ calleeErr' = e
          /\ IF e = NoErr THEN pc' = "tempdir" /\ ret' = ret
             ELSE ReturnErr(Forwarded(e))
    /\ UNCHANGED <<opts, args, port, observed,
                   procVars, stopVars, readerVars,
                   pipeVars>>
    /\ UNCHANGED <<cacheVars, configVars, resolverVars, stderrVars>>

\* ioutil.TempDir
TempDir ==
    /\ ownerAlive /\ pc = "tempdir"
    /\ \E ok \in BOOLEAN :
          IF ok THEN pc' = "args" /\ ret' = ret /\ dbDir' = "exists"
          ELSE ReturnErr("tempdir error") /\ dbDir' = dbDir
    /\ UNCHANGED <<opts, args, port, observed,
                   ownerAlive, mongod, watcher,
                   watchArgs, killedBy, stopVars, readerVars, pipeVars>>
    /\ UNCHANGED <<calleeErr, cacheVars, configVars, resolverVars,
                   stderrVars>>

\* the names ioutil.TempDir and ioutil.TempFile have returned
DbDirPath == "/tmp/842716241"
KeyFilePath == "/tmp/keyfile513684729"

\* strings.HasPrefix(version, "7."): the first component is 7 and a dot
\* follows it
HasPrefixSevenDot(version) ==
    LET parts == Split(version) IN Len(parts) > 1 /\ parts[1] = "7"

EngineOfReplicaOnly(o) ==
    IF o.replica THEN "wiredTiger" ELSE "ephemeralForTest"

\* the storage engine
Engine(o) ==
    IF o.replica THEN "wiredTiger"
    ELSE IF HasPrefixSevenDot(o.MongoVersion) THEN "wiredTiger"
    ELSE "ephemeralForTest"

\* the key file is needed when auth and a replica set are used
KeyFileNeeded(o) == o.auth /\ o.replica

\* the arguments of the mongod command
Args(o, dir, keyFile) ==
    <<"--dbpath", dir, "--port", ToString(o.Port)>>
        \o (IF o.replica THEN <<"--replSet", "rs0">> ELSE <<>>)
        \o (IF Engine(o) = "wiredTiger" THEN <<"--bind_ip", "localhost">>
            ELSE <<>>)
        \o (IF o.auth THEN <<"--auth">> ELSE <<>>)
        \o (IF KeyFileNeeded(o) THEN <<"--keyFile", keyFile>> ELSE <<>>)
        \o <<"--storageEngine", Engine(o)>>

\* building the arguments; ioutil.TempFile for the key file of auth with a
\* replica set
BuildArgs ==
    /\ ownerAlive /\ pc = "args"
    /\ \E ok \in BOOLEAN :
          IF KeyFileNeeded(opts) /\ ~ok
          THEN ReturnErr("keyfile error") /\ args' = args
          ELSE /\ pc' = "start" /\ ret' = ret
               /\ args' = Args(opts, DbDirPath, KeyFilePath)
    /\ UNCHANGED <<opts, port, observed, procVars, stopVars, readerVars,
                   pipeVars>>
    /\ UNCHANGED <<calleeErr, cacheVars, configVars, resolverVars,
                   stderrVars>>

\* stdoutHandler(logger) starts the reader goroutine; cmd.Start()
StartCmd ==
    /\ ownerAlive /\ pc = "start"
    /\ hpc' = "scan"
    /\ \E ok \in BOOLEAN : \E os \in OsResults :
          IF ok
          THEN /\ pc' = "monitor" /\ ret' = ret
               /\ mongod' = "running"
               /\ UNCHANGED <<watcher, dbDir, killedBy, cleanup>>
          ELSE /\ cleanup' = WithResults(StartFailurePath, os)
               /\ SetResources(ApplyCalls(Resources, cleanup'))
               /\ ReturnErr("start error")
    /\ UNCHANGED <<opts, args, port, observed,
                   ownerAlive, watchArgs, stopLog,
                   stopCalls, fatal, haveSentMessage, pending, sentLog,
                   matched, lastLine, pipeVars>>
    /\ UNCHANGED <<calleeErr, cacheVars, configVars, resolverVars,
                   stderrVars>>

\* monitor.RunMonitor
RunMonitor ==
    /\ ownerAlive /\ pc = "monitor"
    /\ \E ok \in BOOLEAN : \E os \in OsResults :
          IF ok
          THEN /\ pc' = "select" /\ ret' = ret
               /\ watcher' = "running"
               /\ watchArgs' = MonitorArgs
               /\ UNCHANGED <<mongod, dbDir, killedBy, cleanup>>
          ELSE /\ cleanup' = WithResults(MonitorFailurePath, os)
               /\ SetResources(ApplyCalls(Resources, cleanup'))
               /\ watchArgs' = watchArgs
               /\ ReturnErr("monitor error")
    /\ UNCHANGED <<opts, args, port, observed,
                   ownerAlive, stopLog, stopCalls,
                   fatal, readerVars, pipeVars>>
    /\ UNCHANGED <<calleeErr, cacheVars, configVars, resolverVars,
                   stderrVars>>

\* the reader's side of a completed channel send
SendCompleted ==
    /\ hpc' = IF hpc = "send" THEN "scan" ELSE "done"
    /\ haveSentMessage' = IF hpc = "send" THEN FlagAfterSend(pending)
                          ELSE haveSentMessage
    /\ pending' = NoMsg
    /\ UNCHANGED <<sentLog, matched, lastLine>>

\* what the launcher does with the event the select statement received
Selected(ev, msg) ==
    LET c == SelectCase(ev, msg) IN
    /\ observed' = Append(observed, ev)
    /\ port' = c.port
    /\ \E os \in OsResults :
          /\ cleanup' = WithResults(c.calls, os)
          /\ SetResources(ApplyCalls(Resources, cleanup'))
    /\ IF ~c.goOn THEN /\ pc' = "returned"
                       /\ ret' = Returned(NoServer, c.err)
       ELSE IF opts.replica THEN pc' = "replica" /\ ret' = ret
       ELSE pc' = "returned" /\ ret' = NewServer(c.port)
    /\ UNCHANGED <<opts, args, ownerAlive, watchArgs, stopLog, stopCalls,
                   fatal, pipeVars>>
    /\ UNCHANGED <<calleeErr, cacheVars, configVars, resolverVars,
                   stderrVars>>

\* case p := <-startupPortCh
RecvPort ==
    /\ ownerAlive /\ pc = "select"
    /\ hpc \in {"send", "sendExit"} /\ pending.ch = "port"
    /\ Selected("port", pending)
    /\ SendCompleted

\* case err := <-startupErrCh
RecvErr ==
    /\ ownerAlive /\ pc = "select"
    /\ hpc \in {"send", "sendExit"} /\ pending.ch = "err"
    /\ Selected("failure", pending)
    /\ SendCompleted

\* case <-time.After(opts.StartupTimeout)
Timeout ==
    /\ ownerAlive /\ pc = "select"
    /\ Selected("timeout", NoMsg)
    /\ UNCHANGED readerVars

\* the replica code: connect, ping, replSetInitiate, disconnect
ReplicaBootstrap ==
    /\ ownerAlive /\ pc = "replica"
    /\ \E failAt \in 0..Len(ReplicaSteps) : \E os \in OsResults :
          \* no step fails (0) only if there is a mongod to talk to
          /\ failAt = 0 => mongod = "running"
          /\ IF failAt = 0
             THEN /\ ret' = NewServer(port)
                  /\ UNCHANGED <<mongod, watcher, dbDir, killedBy, cleanup>>
             ELSE /\ cleanup' = WithResults(ReplicaFailurePath(
                                                ReplicaSteps[failAt]), os)
                  /\ SetResources(ApplyCalls(Resources, cleanup'))
                  /\ ret' = Returned(NoServer, ReplicaSteps[failAt])
    /\ pc' = "returned"
    /\ UNCHANGED <<opts, args, port, observed,
                   ownerAlive, watchArgs, stopLog,
                   stopCalls, fatal, readerVars, pipeVars>>
    /\ UNCHANGED <<calleeErr, cacheVars, configVars, resolverVars,
                   stderrVars>>

\* ------------------------------------------------------------ Server.Stop
Stop ==
    /\ ownerAlive /\ pc = "returned" /\ ret.server # NoServer
    /\ stopCalls < MaxStops
    /\ stopCalls' = stopCalls + 1
    /\ \E os \in OsResults :
          /\ stopLog' = WithResults(StopCalls(os), os)
          /\ LET res == ApplyCalls(Resources, stopLog') IN
             /\ mongod' = res.mongod
             /\ watcher' = res.watcher
             /\ dbDir' = res.dbDir
             /\ killedBy' = IF mongod = "running" /\ res.mongod = "dead"
                            THEN "stop" ELSE killedBy
          /\ fatal' = (fatal \/ StopIsFatal(os))
    /\ UNCHANGED <<launcherVars, ownerAlive, watchArgs, cleanup, readerVars,
                   pipeVars>>
    /\ UNCHANGED <<calleeErr, cacheVars, configVars, resolverVars,
                   stderrVars>>

\* ------------------------------------------------- the stdout reader
\* one round of `for scanner.Scan() { ... }`
ReadLine ==
    /\ ownerAlive /\ hpc = "scan" /\ stream # <<>>
    /\ stream' = Tail(stream)
    /\ LET msg == IF LineIsClassified(haveSentMessage)
                  THEN Classify(Head(stream)) ELSE NoMsg IN
       IF msg = NoMsg
       THEN UNCHANGED <<hpc, haveSentMessage, pending, sentLog>>
       ELSE /\ hpc' = "send"
            /\ pending' = msg
            /\ sentLog' = Append(sentLog, msg)
            /\ haveSentMessage' = haveSentMessage
    /\ matched' = (matched \/ FirstRule(Head(stream)) # "none")
    /\ lastLine' = Head(stream)
    /\ UNCHANGED <<launcherVars, procVars, stopVars, written, closed>>
    /\ UNCHANGED <<calleeErr, cacheVars, configVars, resolverVars,
                   stderrVars>>

\* scanner.Scan() returns false; the code after the loop
ReadEOF ==
    /\ ownerAlive /\ hpc = "scan" /\ stream = <<>> /\ closed
    /\ IF ExitIsReported(haveSentMessage)
       THEN /\ hpc' = "sendExit"
            /\ pending' = ErrMsg(ErrExited)
            /\ sentLog' = Append(sentLog, pending')
       ELSE /\ hpc' = "done"
            /\ UNCHANGED <<pending, sentLog>>
    /\ UNCHANGED <<haveSentMessage, matched, lastLine>>
    /\ UNCHANGED <<launcherVars, procVars, stopVars, pipeVars>>
    /\ UNCHANGED <<calleeErr, cacheVars, configVars, resolverVars,
                   stderrVars>>

\* ------------------------------------------------- the stderr reader
\* a stderr handler that classifies its lines as the stdout handler does
StderrEventsClassified(line) ==
    IF Classify(line) = NoMsg THEN <<>> ELSE <<Classify(line)>>

\* the messages the goroutine of stderrHandler puts on a channel for a
\* line: it has no channel
StderrEvents(line) == <<>>

\* one round of `for scanner.Scan() { log.Debugf(...) }`
StderrReadLine ==
    /\ ownerAlive /\ errStream # <<>>
    /\ errStream' = Tail(errStream)
    /\ errLog' = Append(errLog, Head(errStream))
    /\ sentLog' = sentLog \o StderrEvents(Head(errStream))
    /\ UNCHANGED <<hpc, haveSentMessage, pending, matched, lastLine>>
    /\ UNCHANGED <<launcherVars, procVars, stopVars, pipeVars>>
    /\ UNCHANGED <<calleeErr, cacheVars, configVars, resolverVars>>

\* ------------------------------------------------------- the environment
\* stdout lines of the launch specification
SampleLines ==
    { <<"waiting for connections on port", "27017">>,
      <<"Waiting For Connections On Port", "27017">>,
      <<"waiting for connections on port", "99999999999999999999">>,
      <<"addr already in use", "waiting for connections on port", "27017">>,
      <<"Addr Already In Use">>,
      <<"shutting down with code">>,
      <<"not found">> }

\* the mongod process writes one line to its stdout
ServerWrites(lines) ==
    /\ ownerAlive /\ mongod = "running" /\ ~closed
    /\ stream = <<>> /\ written < MaxLines
    /\ \E line \in lines : stream' = <<line>>
    /\ written' = written + 1
    /\ UNCHANGED <<launcherVars, procVars, stopVars, readerVars, closed>>
    /\ UNCHANGED <<calleeErr, cacheVars, configVars, resolverVars,
                   stderrVars>>

\* stderr lines: one that matches the ready rule, one that matches a
\* failure rule
StderrLines ==
    { <<"waiting for connections on port", "27017">>,
      <<"addr already in use">> }

\* the mongod process writes one line to its stderr
ServerWritesErr ==
    /\ ownerAlive /\ mongod = "running"
    /\ errStream = <<>> /\ Len(errLog) < MaxErrLines
    /\ \E line \in StderrLines : errStream' = <<line>>
    /\ UNCHANGED <<launcherVars, procVars, stopVars, readerVars, pipeVars,
                   errLog>>
    /\ UNCHANGED <<calleeErr, cacheVars, configVars, resolverVars>>

\* the mongod process exits by itself
ServerExits ==
    /\ mongod = "running"
    /\ mongod' = "dead"
    /\ killedBy' = "self"
    /\ UNCHANGED <<launcherVars, ownerAlive, watcher, watchArgs, dbDir,
                   stopVars, readerVars, pipeVars>>
    /\ UNCHANGED <<calleeErr, cacheVars, configVars, resolverVars,
                   stderrVars>>

\* the stdout stream of the dead process ends: the write side of the pipe
\* returned by stdoutHandler is closed
CloseStream ==
    /\ ownerAlive /\ mongod = "dead" /\ ~closed
    /\ closed' = TRUE
    /\ UNCHANGED <<launcherVars, procVars, stopVars, readerVars, stream,
                   written>>
    /\ UNCHANGED <<calleeErr, cacheVars, configVars, resolverVars,
                   stderrVars>>

\* the process that called StartWithOptions dies
OwnerDies ==
    /\ ownerAlive
    /\ ownerAlive' = FALSE
    /\ UNCHANGED <<launcherVars, mongod, watcher, watchArgs, dbDir, killedBy,
                   stopVars, readerVars, pipeVars>>
    /\ UNCHANGED <<calleeErr, cacheVars, configVars, resolverVars,
                   stderrVars>>

Alive(p) ==
    CASE p = "launcher" -> ownerAlive
      [] p = "mongod" -> mongod = "running"
      [] OTHER -> FALSE

\* the watcher process: once its owner is gone it kills its child
WatcherKills ==
    /\ watcher = "running"
    /\ ~Alive(watchArgs.owner) /\ Alive(watchArgs.child)
    /\ IF watchArgs.child = "mongod"
       THEN mongod' = "dead" /\ killedBy' = "watcher" /\ ownerAlive' = ownerAlive
       ELSE ownerAlive' = FALSE /\ UNCHANGED <<mongod, killedBy>>
    /\ UNCHANGED <<launcherVars, watcher, watchArgs, dbDir, stopVars,
                   readerVars, pipeVars>>
    /\ UNCHANGED <<calleeErr, cacheVars, configVars, resolverVars,
                   stderrVars>>

\* ---------------------------------------------------------- specifications
Next ==
    \/ FillAndFetch
    \/ TempDir
    \/ BuildArgs
    \/ StartCmd
    \/ RunMonitor
    \/ RecvPort
    \/ RecvErr
    \/ Timeout
    \/ ReplicaBootstrap
    \/ Stop
    \/ ReadLine
    \/ ReadEOF
    \/ ServerWrites(SampleLines)
    \/ ServerExits
    \/ CloseStream
    \/ OwnerDies
    \/ WatcherKills

Spec == Init /\ [][Next]_vars

\* the watcher is a process of its own: it runs whenever it can
LiveSpec == Spec /\ WF_vars(WatcherKills)

\* the launch together with the stderr of the mongod process
StderrNext ==
    \/ Next
    \/ ServerWritesErr
    \/ StderrReadLine

StderrSpec == Init /\ [][StderrNext]_vars

TypeOK ==
    /\ pc \in {"fill", "tempdir", "args", "start", "monitor", "select",
               "replica", "returned"}
    /\ hpc \in {"none", "scan", "send", "sendExit", "done"}
    /\ mongod \in {"none", "running", "dead"}
    /\ watcher \in {"none", "running", "dead"}
    /\ dbDir \in {"none", "exists", "removed"}
    /\ Len(stream) <= 1

\* ------------------------------------- the reader on lines of every shape
AllLines == UNION {[1..n -> Tokens] : n \in 0..MaxTokens}

ReadyLines == { <<"waiting for connections on port", "27017">> }

\* the launcher waits in its select statement and the mongod has written
\* its first line
ClassifyInit ==
    /\ opts = PlainOptions
    /\ args = Args(PlainOptions, DbDirPath, KeyFilePath)
    /\ pc = "select"
    /\ ret = NotReturned
    /\ port = 0
    /\ observed = <<>>
    /\ ownerAlive = TRUE
    /\ mongod = "running"
    /\ watcher = "running"
    /\ watchArgs = MonitorArgs
    /\ dbDir = "exists"
    /\ killedBy = "none"
    /\ cleanup = <<>>
    /\ stopLog = <<>>
    /\ stopCalls = 0
    /\ fatal = FALSE
    /\ hpc = "scan"
    /\ haveSentMessage = FALSE
    /\ pending = NoMsg
    /\ sentLog = <<>>
    /\ matched = FALSE
    /\ lastLine = <<>>
    /\ \E line \in AllLines : stream = <<line>>
    /\ written = 1
    /\ closed = FALSE
    /\ calleeErr = NoErr
    /\ errStream = <<>>
    /\ errLog = <<>>
    /\ CacheIdle
    /\ ConfigIdle
    /\ ResolverIdle

ClassifyNext ==
    \/ ReadLine
    \/ RecvPort
    \/ RecvErr
    \/ ServerWrites(ReadyLines)

ClassifySpec == ClassifyInit /\ [][ClassifyNext]_vars

\* ------------------------------------------- the cache and its callers
LaunchIdle == InitWith(PlainOptions)

CacheInit ==
    /\ ColdCache
    /\ LaunchIdle
    /\ ConfigIdle
    /\ ResolverIdle

CacheSpec == CacheInit /\ [][CacheNext]_vars

\* ------------------------------------ the options and the cache they use
ConfigInit ==
    /\ OptionsNew
    /\ LaunchIdle
    /\ ResolverIdle

ConfigSpec == ConfigInit /\ [][ConfigNext]_vars

\* ------------------------------------------- the download spec by itself
ResolverInit ==
    /\ ResolverNew
    /\ LaunchIdle
    /\ CacheIdle
    /\ ConfigIdle

ResolverSpec == ResolverInit /\ [][ResolverNext]_vars

\* ------------------------------- the launch up to the start of the mongod
\* the versions the Options can hold when the launch begins: none (a
\* download URL or a binary was given), versions the download spec accepts
\* and strings it was never asked about
LaunchVersions == {"", "4.0.5", "7.0.1", "17.0.1", "7"}
LaunchPorts == {27017, 40001}

ArgsInit ==
    /\ \E o \in LaunchOptions(LaunchVersions, LaunchPorts) : InitWith(o)
    /\ CacheIdle
    /\ ConfigIdle
    /\ ResolverIdle

ArgsNext ==
    \/ FillAndFetch
    \/ TempDir
    \/ BuildArgs
    \/ StartCmd
    \/ RunMonitor

ArgsSpec == ArgsInit /\ [][ArgsNext]_vars

\* ------------------------------------------------------------------ claims
Ops(calls) == [i \in 1..Len(calls) |-> calls[i].op]
CallOk(calls, i) == calls[i].ok
Blocked == hpc \in {"send", "sendExit"}
SelectDone == pc = "replica" \/ (pc = "returned" /\ observed # <<>>)

\* C1: over one launch the stdout reader puts at most one message on the
\* port channel and the error channel together; after it, no line and no end
\* of the stream adds a second one.
C1_AtMostOneMessage == Len(sentLog) <= 1

\* a line that matches a rule is read after the launcher has received the
\* reader's message, and nothing more is sent
C1_Witness ==
    /\ Len(sentLog) = 1 /\ haveSentMessage /\ observed # <<>>
    /\ written = 2 /\ stream = <<>> /\ hpc = "scan"
    /\ FirstRule(lastLine) # "none"

\* C2: the select statement receives exactly one of port, failure and
\* timeout, and that event decides what StartWithOptions returns: a Server
\* only after a port, an error and no Server after a failure or the timeout.
C2_OneOutcomeDecides ==
    /\ Len(observed) <= 1
    /\ (pc = "replica" \/ (pc = "returned" /\ watcher # "none"))
          => Len(observed) = 1
    /\ ret.server.valid
          => /\ observed = <<"port">>
             /\ ret.err = NoErr
             /\ ret.server.port = sentLog[1].port
    /\ observed = <<"failure">>
          => /\ pc = "returned" /\ ~ret.server.valid
             /\ ret.err = sentLog[1].err /\ ret.err # NoErr
    /\ observed = <<"timeout">>
          => /\ pc = "returned" /\ ~ret.server.valid
             /\ ret.err = ErrTimeout

\* the timeout is taken although the reader offers a port
C2_Witness ==
    /\ observed = <<"timeout">> /\ pc = "returned"
    /\ hpc = "send" /\ pending.ch = "port"

\* C3: whatever the select statement received, the reader is never left
\* blocked in a send that nobody will receive.
C3_ReaderNeverBlocked == SelectDone => ~Blocked

\* C4: when StartWithOptions returns the error of a failure event, of the
\* early exit or of the timeout, it has called Kill on the mongod process
\* and then RemoveAll on the data directory: the process does not run and
\* the directory is gone, unless the operating system refused the call.
C4_FailureCleansUp ==
    (pc = "returned" /\ observed \in {<<"failure">>, <<"timeout">>})
       => /\ Ops(cleanup) = <<"kill", "removeAll">>
          /\ CallOk(cleanup, 1) => mongod # "running"
          /\ CallOk(cleanup, 2) => dbDir = "removed"

\* the timeout with both calls answered: process dead, directory gone
C4_Witness ==
    /\ pc = "returned" /\ observed = <<"timeout">>
    /\ killedBy = "launcher" /\ mongod = "dead" /\ dbDir = "removed"

ReplicaFailed ==
    /\ pc = "returned" /\ opts.replica
    /\ observed = <<"port">> /\ ~ret.server.valid

\* C5: when a step of the replica bootstrap fails, StartWithOptions returns
\* an error, and the mongod process no longer runs and the data directory
\* is removed.
C5_ReplicaFailureCleansUp ==
    ReplicaFailed
       => ret.err # NoErr /\ mongod # "running" /\ dbDir # "exists"

\* C6: Stop calls Kill on the mongod, Kill on the watcher and RemoveAll on
\* the data directory, in this order, whatever the earlier calls returned.
C6_StopAttemptsAllSteps ==
    stopCalls > 0 => Ops(stopLog) = <<"kill", "killWatcher", "removeAll">>

FullyStopped ==
    /\ stopCalls > 0
    /\ mongod = "dead" /\ watcher = "dead" /\ dbDir = "removed"

\* C7: a Stop after a Stop that killed the mongod, killed the watcher and
\* removed the data directory leaves this state as it is, and no Stop raises
\* a fatal error.
C7_StopIdempotent ==
    [][ /\ (stopCalls' > stopCalls /\ FullyStopped)
            => /\ mongod' = mongod /\ watcher' = watcher /\ dbDir' = dbDir
               /\ killedBy' = killedBy
        /\ ~fatal' ]_vars

\* the second Stop finds everything gone and is refused by the system
C7_Witness ==
    /\ stopCalls = 2 /\ FullyStopped
    /\ Len(stopLog) = 1 /\ ~CallOk(stopLog, 1)

\* C8 as stated: once the mongod process was started, the death of the
\* owner without a Stop leads to the watcher killing the mongod; the watcher
\* kills nothing while the owner lives.
C8_OrphanAlwaysKilled ==
    /\ (mongod = "running" /\ ~ownerAlive /\ stopCalls = 0)
           ~> (mongod # "running")
    /\ [](killedBy = "watcher" => ~ownerAlive)

\* C8: once the watcher was started, the death of the owner without a Stop
\* leads to the mongod not running any more, killed by the watcher unless it
\* ended by itself; the watcher kills nothing while the owner lives.
C8_WatchedOrphanKilled ==
    /\ (watcher = "running" /\ mongod = "running" /\ ~ownerAlive
           /\ stopCalls = 0)
           ~> (mongod # "running")
    /\ [](killedBy = "watcher" => ~ownerAlive)

C8_Witness == killedBy = "watcher" /\ ~ownerAlive /\ stopCalls = 0

\* the reader takes a line while it has sent nothing yet
FirstRead == hpc = "scan" /\ stream # <<>> /\ stream' = Tail(stream)
                /\ sentLog = <<>>

\* the message of a rule that decides a line
RuleMsg(r, line) ==
    CASE r = "ready" ->
           LET a == Atoi(reReadyCapture(ToLower(line))) IN
           IF a.ok THEN PortMsg(a.n) ELSE ErrMsg(ErrParsePort)
      [] r = "inuse" -> ErrMsg(ErrInUse)
      [] r = "running" -> ErrMsg(ErrRunning)
      [] r = "permission" -> ErrMsg(ErrPermission)
      [] r = "nodatadir" -> ErrMsg(ErrNoDataDir)
      [] r = "shutdown" -> ErrMsg(ErrShutDown)

FailureRuleHolds(line) ==
    \E i \in 2..Len(RuleOrder) : RuleHolds(RuleOrder[i], line)

ContainsAnyCase(line, text) ==
    \E i \in 1..Len(line) : LowerOf(line[i]) = text

\* the first rule of the table decides the line
FirstRuleDecides ==
    FirstRead =>
       LET r == FirstRule(Head(stream)) IN
       sentLog' = IF r = "none" THEN <<>> ELSE <<RuleMsg(r, Head(stream))>>

\* "addr already in use" in any letter case, without the ready pattern
InUseFails ==
    (FirstRead /\ ContainsAnyCase(Head(stream), "addr already in use")
        /\ ~RuleHolds("ready", Head(stream)))
       => sentLog' = <<ErrMsg(ErrInUse)>>

\* after the address-in-use failure no port is delivered
NoPortAfterInUse ==
    (sentLog # <<>> /\ sentLog[1] = ErrMsg(ErrInUse))
       => /\ \A i \in 1..Len(sentLog) : sentLog[i].ch # "port"
          /\ observed # <<"port">> /\ port = 0

\* C9 as stated: a line is lower-cased and tested against the rules in the
\* order of the table, the first rule that matches decides; a line that
\* matches the ready pattern and a failure pattern yields a port; "addr
\* already in use" in any letter case without the ready pattern yields the
\* address-in-use failure, and no port is delivered after it.
C9_BothYieldPort ==
    [][ /\ FirstRuleDecides
        /\ (FirstRead /\ RuleHolds("ready", Head(stream))
               /\ FailureRuleHolds(Head(stream)))
              => (sentLog' # <<>> /\ sentLog'[1].ch = "port")
        /\ InUseFails
        /\ NoPortAfterInUse' ]_vars

\* C9: as above, but a line that matches the ready pattern and a failure
\* pattern yields what the ready rule yields: the port, or the failure
\* "could not parse port" when the captured digits do not fit an int.
C9_RulePriority ==
    [][ /\ FirstRuleDecides
        /\ (FirstRead /\ RuleHolds("ready", Head(stream))
               /\ FailureRuleHolds(Head(stream)))
              => sentLog' = <<RuleMsg("ready", Head(stream))>>
        /\ InUseFails
        /\ NoPortAfterInUse' ]_vars

\* the first line has the ready pattern after "Addr Already In Use": it
\* gave a port, and the launcher received it
C9_Witness ==
    /\ written = 1 /\ stream = <<>>
    /\ RuleHolds("ready", lastLine) /\ RuleHolds("inuse", lastLine)
    /\ lastLine[1] = "Addr Already In Use"
    /\ sentLog = <<PortMsg(27017)>> /\ observed = <<"port">>

EndSeen == hpc \in {"sendExit", "done"}

\* C10: when the stream ends and no line has matched a rule, the reader
\* sends exactly one failure, "mongod exited before startup completed"; when
\* a line has matched, the end of the stream sends nothing.
C10_ExitReportedOnce ==
    /\ ~EndSeen => \A i \in 1..Len(sentLog) : sentLog[i].err # ErrExited
    /\ (EndSeen /\ ~matched) => sentLog = <<ErrMsg(ErrExited)>>
    /\ (EndSeen /\ matched)
          => /\ Len(sentLog) = 1
             /\ sentLog[1].err # ErrExited

\* the stream ended after a line without any pattern
C10_Witness ==
    /\ hpc = "sendExit" /\ ~matched /\ written > 0 /\ lastLine # <<>>
    /\ sentLog = <<ErrMsg(ErrExited)>>


\* ------------------------------------------------------------ the cache
Entered(c) == callState[c].pc = "idle" /\ callState'[c].pc # "idle"
ReqOf(call) == ReqFiles(call.urlStr, call.mongoshUrl)
\* every required file of the call is at its final path
AllPresent(call) == ~FilesMissing(call.dirPath, ReqOf(call))
\* the call returned the paths and has not touched network or cache
ReturnedFromCache(call) ==
    /\ call.pc = "done"
    /\ call.paths = MongoPaths(call.dirPath) /\ call.err = NoErr
    /\ call.gets = {} /\ call.writes = 0

SameRequest(a, b) ==
    /\ callState[a].urlStr = callState[b].urlStr
    /\ callState[a].mongoshUrl = callState[b].mongoshUrl

\* C12: when a call of GetOrDownloadMongod has returned paths and a second
\* call with the same URLs and the same cache root follows it, the second
\* call returns the same paths, downloads nothing and leaves every cached
\* file as it is.
C12_SecondCallUsesCache ==
    \A a \in Callers, b \in Callers :
       /\ callState[b].pc = "done" /\ a \in callState[b].after
       /\ callState[a].err = NoErr /\ SameRequest(a, b)
       => /\ callState[b].paths = callState[a].paths
          /\ callState[b].err = NoErr
          /\ callState[b].gets = {} /\ callState[b].writes = 0

AllDone == \A c \in Callers : callState[c].pc = "done"

\* C13: a caller that takes the cache-hit path has found only complete
\* files at the final paths, and when every caller has returned every file
\* at a final path is complete.
C13_AtomicPerFile ==
    /\ \A c \in Callers : callState[c].hit => ~callState[c].sawIncomplete
    /\ AllDone => \A p \in Paths : Exists(p) => files[p].content = "complete"

\* the step of a call that ends the copy made after a failed rename, the
\* copy itself meeting no error of the operating system
CopyEnds(c) == callState[c].pc = "copy" /\ callState'[c].err # ErrCopy
DestOf(call) == Join(call.dirPath, call.fName)

\* C14: when the rename of the scratch file failed with a cross-device
\* link error, the call goes on without an error and the file at the final
\* path is complete and executable.
C14_CrossDeviceFallback ==
    [][\A c \in Callers :
          CopyEnds(c) /\ callState[c].renameErr = "cross-device"
              => /\ callState'[c].err = NoErr
                 /\ files'[DestOf(callState[c])].content = "complete"
                 /\ files'[DestOf(callState[c])].exec]_vars

\* the step of a call that ends the handling of one file whose rename has
\* failed
FailedMoveEnds(c) ==
    /\ callState[c].pc \in {"rename", "create", "copy"}
    /\ callState'[c].pc \notin {"create", "copy"}
    /\ callState'[c].renameErr # "ok"
    /\ callState'[c].err # ErrExtract

\* C15: when the rename of the scratch file failed for another reason than
\* a move across filesystems, the call returns an error.
C15_OtherRenameErrorFails ==
    [][\A c \in Callers :
          FailedMoveEnds(c) /\ callState'[c].renameErr # "cross-device"
              => callState'[c].pc = "done" /\ callState'[c].err # NoErr]_vars

\* some required name has no entry in the tarball
Lacks(entries, names) ==
    \E i \in 1..Len(names) :
       \A j \in 1..Len(entries) : ~HasSuffix(entries[j], names[i])

\* C16: when the tarball is read to its end and some required name has no
\* entry in it, the call returns an error and no paths.
C16_MissingEntryFails ==
    \A c \in Callers :
       LET call == callState[c]
           xs == Extractions(call.urlStr, call.mongoshUrl) IN
       \A i \in 1..Len(xs) :
          /\ call.pc = "done" /\ ~call.hit /\ call.renameErr \in {"none", "ok"}
          /\ call.err \in {NoErr, ErrNoBinary}
          /\ Lacks(archive[xs[i].url], xs[i].files)
          /\ \A j \in 1..(i - 1) : ~Lacks(archive[xs[j].url], xs[j].files)
          => call.err # NoErr /\ call.paths = NoPaths

\* C17: every file in the cache lies under the directory derived from the
\* URL of the tarball it was extracted from.
C17_OneDirectoryPerUrl ==
    \A p \in Paths :
       Exists(p) => p[1] = directoryNameForURL(files[p].from)


\* ----------------------------------------------------------- the options
\* fillDefaults has returned nil
FillSucceeded ==
    cfgPc \in {"filled", "fetching"}
        \/ (cfgPc = "done" /\ callState[Caller].pc = "done")

\* C18: after fillDefaults the startup timeout is 10 seconds when the
\* caller left it unset, wherever the port came from.  A timeout the caller
\* has set is kept, so the timeout is zero after fillDefaults exactly when
\* the caller left it unset and no default was put in.
C18_TimeoutDefaulted == FillSucceeded => filled.StartupTimeout # 0

\* C19: when a local mongod binary is given (option or environment), the
\* tarball of the server is not downloaded and the path of mongod that
\* getOrDownloadBinPath returns is the local binary.
C19_LocalMongodNoDownload ==
    FillSucceeded /\ filled.MongodBin # ""
        => /\ filled.DownloadURL \notin callState[Caller].gets
           /\ cfgPc = "done" /\ cfgErr = NoErr
                 => binPath.Mongod = filled.MongodBin

\* C20: when fillDefaults or getOrDownloadBinPath has failed,
\* StartWithOptions has returned the error of the callee and no server, and
\* there is no scratch data directory, no mongod process and no watcher.
C20_EarlyErrorForwarded ==
    calleeErr # NoErr
        => /\ pc = "returned" /\ ret = Returned(NoServer, calleeErr)
           /\ dbDir = "none" /\ mongod = "none" /\ watcher = "none"
           /\ hpc = "none" /\ cleanup = <<>>

C20_Witness ==
    pc = "returned" /\ calleeErr = ErrGet /\ ret.err = ErrGet /\ dbDir = "none"

\* the numbers a version string spells, when its first three components
\* are numbers
ThreeNumbers ==
    LET p == Split(download.version) IN
    Len(p) >= 3 /\ \A i \in 1..3 : AtoiComponent(p[i]).ok
Requested ==
    LET p == Split(download.version) IN
    [i \in 1..3 |-> AtoiComponent(p[i]).n]
Less(a, b) ==
    \/ a[1] < b[1]
    \/ a[1] = b[1] /\ a[2] < b[2]
    \/ a[1] = b[1] /\ a[2] = b[2] /\ a[3] < b[3]
Supported == ThreeNumbers /\ ~Less(Requested, <<3, 2, 0>>)
Called == download.pc # "new"
Accepted == download.pc \in {"spec", "url"}
Refused == download.pc = "failed" /\ download.spec = NoSpec
RefusedWith(type, msg) ==
    Refused /\ download.err.type = type /\ download.err.msg = msg

WellFormedVersions == {JoinDots(p) : p \in WellFormed}

\* C22: a version x.y.z below 3.2.0 is refused on every host with the cause
\* "Only Mongo version 3.2 and above are supported" and without a spec.
C22_OldVersionRefused ==
    (Called /\ download.version \in WellFormedVersions
        /\ Less(Requested, <<3, 2, 0>>))
       => RefusedWith("UnsupportedMongoVersionError",
                      "Only Mongo version 3.2 and above are supported")

\* 3.0.2 refused on a linux arm64 host
C22_Witness ==
    /\ Refused /\ download.version = "3.0.2"
    /\ host.GoOS = "linux" /\ host.GoArch = "arm64"
    /\ download.err.msg = "Only Mongo version 3.2 and above are supported"

NumericComponents ==
    LET p == Split(download.version) IN
    Cardinality({i \in 1..Len(p) : AtoiComponent(p[i]).ok})

\* C23 as stated: a version string with fewer than three numeric components
\* is refused with the cause "MongoDB version number must be in the form
\* x.y.z".
C23_FewerNumbersRefused ==
    (Called /\ NumericComponents < 3)
       => RefusedWith("UnsupportedMongoVersionError",
                      "MongoDB version number must be in the form x.y.z")

\* C23: a version string with fewer than three components between its dots
\* is refused with the cause "MongoDB version number must be in the form
\* x.y.z".
C23_FewerComponentsRefused ==
    (Called /\ Len(Split(download.version)) < 3)
       => RefusedWith("UnsupportedMongoVersionError",
                      "MongoDB version number must be in the form x.y.z")

\* 4.0 refused
C23_Witness ==
    /\ Refused /\ download.version = "4.0"
    /\ download.err.msg = "MongoDB version number must be in the form x.y.z"

\* the distro tag of the host for the requested version
Tag == detectOSName(Requested)
UntaggedLinux == Called /\ Supported /\ host.GoOS = "linux" /\ Tag = ""

\* C24 as stated: on linux with an empty distro tag, a version from 4.2.0 is
\* refused with an UnsupportedSystem error and a version below 4.2.0 is
\* accepted with an empty OSName.
C24_UntaggedLinux ==
    UntaggedLinux =>
        IF Less(Requested, <<4, 2, 0>>)
        THEN Accepted /\ download.spec.OSName = ""
        ELSE Refused /\ download.err.type = "UnsupportedSystemError"

\* C24: on linux with an empty distro tag, a version from 4.2.0 is refused
\* with an UnsupportedSystem error; on amd64 a version below 4.2.0 is
\* accepted with an empty OSName.
C24_UntaggedLinuxOnAmd64 ==
    UntaggedLinux =>
        IF Less(Requested, <<4, 2, 0>>)
        THEN host.GoArch = "amd64"
                => Accepted /\ download.spec.OSName = ""
        ELSE Refused /\ download.err.type = "UnsupportedSystemError"

\* 4.2.1 refused on a linux without release files
C24_Witness ==
    /\ UntaggedLinux /\ download.version = "4.2.1"
    /\ host.GoArch = "amd64" /\ ~host.osRelease.ok
    /\ Refused /\ download.err.msg = ErrGenericLinux

Ubuntu(release) == host.osRelease = OsRelease("ubuntu", release)
OnAmd64(version) ==
    Called /\ host.GoOS = "linux" /\ host.GoArch = "amd64"
    /\ download.version = version
OnArm64(version) ==
    Called /\ host.GoOS = "linux" /\ host.GoArch = "arm64"
    /\ download.version = version

\* C25: an Ubuntu release newer than the version supports falls back to
\* the newest older release the version supports: 20.04 and 22.04 with
\* 4.0.5 give ubuntu1804 (on arm64 with 4.1.0 the error names
\* ubuntu1804/arm64), 18.04 with 4.0.0 gives ubuntu1604, 16.04 and 18.04
\* with 3.2.6 give ubuntu1404.
C25_UbuntuFallsBack ==
    /\ (OnAmd64("4.0.5") /\ (Ubuntu("20.04") \/ Ubuntu("22.04")))
          => Accepted /\ download.spec.OSName = "ubuntu1804"
    /\ (OnArm64("4.1.0") /\ (Ubuntu("20.04") \/ Ubuntu("22.04")))
          => RefusedWith("UnsupportedSystemError",
                "Mongo doesn't support your environment, ubuntu1804/arm64, "
                \o "on version 4.1.0")
    /\ (OnAmd64("4.0.0") /\ Ubuntu("18.04"))
          => Accepted /\ download.spec.OSName = "ubuntu1604"
    /\ (OnAmd64("3.2.6") /\ (Ubuntu("16.04") \/ Ubuntu("18.04")))
          => Accepted /\ download.spec.OSName = "ubuntu1404"

\* the request gets as far as the architecture
ReachesArch ==
    /\ Called /\ Supported
    /\ host.GoOS \in {"darwin", "linux"}
    /\ ~(host.GoOS = "linux" /\ Tag = ""
         /\ ~Less(Requested, <<4, 2, 0>>))

From(v) == ~Less(Requested, v)

\* the architecture tag of the table of C26, "" where it has no entry
Arm64Expected ==
    CASE Tag = "ubuntu1604" /\ Less(Requested, <<4, 0, 27>>) -> "arm64"
      [] Tag = "ubuntu1804" /\ From(<<4, 2, 0>>) -> "aarch64"
      [] Tag = "ubuntu2004" /\ From(<<4, 4, 0>>) -> "aarch64"
      [] Tag = "ubuntu2204" /\ From(<<6, 0, 4>>) -> "aarch64"
      [] Tag = "amazon2" /\ From(<<4, 2, 13>>) -> "aarch64"
      [] host.GoOS = "darwin" /\ From(<<6, 0, 0>>) -> "arm64"
      [] OTHER -> ""

\* C26: on arm64 from 3.4.0 the architecture tag follows the table, and
\* every other pair of a distro tag and a version is refused with an
\* UnsupportedSystem error naming "<tag or platform>/arm64" and the
\* version; on amd64 the tag is x86_64.
C26_Arm64Table ==
    /\ (ReachesArch /\ host.GoArch = "arm64" /\ From(<<3, 4, 0>>))
          => IF Arm64Expected # ""
             THEN Accepted /\ download.spec.Arch = Arm64Expected
             ELSE RefusedWith("UnsupportedSystemError",
                     "Mongo doesn't support your environment, "
                     \o (IF Tag # "" THEN Tag
                         ELSE IF host.GoOS = "darwin" THEN "osx"
                         ELSE "linux")
                     \o "/arm64, on version "
                     \o ToString(Requested[1]) \o "."
                     \o ToString(Requested[2]) \o "."
                     \o ToString(Requested[3]))
    /\ (ReachesArch /\ host.GoArch = "amd64")
          => Accepted /\ download.spec.Arch = "x86_64"

\* 4.1.0 on an arm64 mac is refused naming osx/arm64
C26_Witness ==
    /\ ReachesArch /\ host.GoArch = "arm64" /\ host.GoOS = "darwin"
    /\ download.version = "4.1.0"
    /\ Refused
    /\ download.err.msg = "Mongo doesn't support your environment, "
                          \o "osx/arm64, on version 4.1.0"

\* C27: on arm64 every version from 3.2.0 and below 3.4.0 is refused with
\* "arm64 support was introduced in Mongo 3.4.0", on every platform and
\* with every distro tag.
C27_Arm64Floor ==
    (ReachesArch /\ host.GoArch = "arm64" /\ Less(Requested, <<3, 4, 0>>))
       => RefusedWith("UnsupportedSystemError",
                      "arm64 support was introduced in Mongo 3.4.0")

\* 3.3.0 on arm64 Ubuntu 16.04
C27_Witness ==
    /\ ReachesArch /\ host.GoArch = "arm64" /\ Ubuntu("16.04")
    /\ download.version = "3.3.0"
    /\ Refused /\ download.err.msg = ErrArm64Floor

\* C28: the URL is https://fastdl.mongodb.org/<platform>/<archive>; the
\* archive is mongodb-linux-<arch>-[<tag>-]<version>.tgz on linux and
\* mongodb-osx-ssl-<arch>-<version>.tgz or mongodb-macos-<arch>-<version>.tgz
\* on osx; 4.0.5 on osx, x86_64 with ssl gives
\* mongodb-osx-ssl-x86_64-4.0.5.tgz.
C28_DownloadUrl ==
    download.pc = "url" =>
        LET d == download.spec
            tail == d.Arch \o "-" \o d.Version \o ".tgz" IN
        /\ d.Platform = "linux" /\ d.OSName # ""
              => download.url = "https://fastdl.mongodb.org/linux/"
                                \o "mongodb-linux-" \o d.Arch \o "-"
                                \o d.OSName \o "-" \o d.Version \o ".tgz"
        /\ d.Platform = "linux" /\ d.OSName = ""
              => download.url = "https://fastdl.mongodb.org/linux/"
                                \o "mongodb-linux-" \o tail
        /\ d.Platform = "osx" /\ d.SSLBuildNeeded
              => download.url = "https://fastdl.mongodb.org/osx/"
                                \o "mongodb-osx-ssl-" \o tail
        /\ d.Platform = "osx" /\ ~d.SSLBuildNeeded
              => download.url = "https://fastdl.mongodb.org/osx/"
                                \o "mongodb-macos-" \o tail
        /\ (d.Version = "4.0.5" /\ d.Platform = "osx" /\ d.Arch = "x86_64"
            /\ d.SSLBuildNeeded)
              => download.url = "https://fastdl.mongodb.org/osx/"
                                \o "mongodb-osx-ssl-x86_64-4.0.5.tgz"

\* a linux URL without a distro tag
C28_Witness ==
    /\ download.pc = "url"
    /\ download.url
          = "https://fastdl.mongodb.org/linux/mongodb-linux-x86_64-3.6.1.tgz"

StderrStep == errStream' # errStream \/ errLog' # errLog

\* C29: a step of the stderr of the mongod process, the write of a line or
\* its relay to the logger, puts no message on a channel and changes
\* nothing of the launcher, of the stdout reader and of what was
\* started; the handler only appends the line to the log.
C29_StderrOnlyRelayed ==
    [][StderrStep =>
          /\ UNCHANGED <<launcherVars, procVars, stopVars, readerVars,
                         pipeVars>>
          /\ errLog' # errLog
                => errLog' = Append(errLog, Head(errStream))]_vars

\* a ready line on stderr was relayed and the launch timed out
C29_Witness ==
    /\ errLog = << <<"waiting for connections on port", "27017">> >>
    /\ pc = "returned" /\ ret.err = ErrTimeout /\ sentLog = <<>>

\* C30: monitor.RunMonitor is called right after cmd.Start succeeded and
\* before the select statement, with the pid of the launcher and the pid
\* of the mongod process; when it fails, StartWithOptions calls Kill on the
\* mongod process, RemoveAll on the data directory and returns the error
\* without having received an event.
C30_WatcherStartedBeforeWaiting ==
    [][/\ pc' = "monitor" /\ pc # "monitor"
             => pc = "start" /\ mongod' = "running"
       /\ pc' = "select" /\ pc # "select"
             => /\ pc = "monitor" /\ watcher' = "running"
                /\ watchArgs' = [owner |-> "launcher", child |-> "mongod"]
       /\ pc = "monitor" /\ pc' # "monitor"
             => \/ pc' = "select"
                \/ /\ pc' = "returned" /\ observed' = <<>>
                   /\ ret' = Returned(NoServer, "monitor error")
                   /\ watcher' = "none"
                   /\ Ops(cleanup') = <<"kill", "removeAll">>
                   /\ CallOk(cleanup', 1) => mongod' # "running"
                   /\ CallOk(cleanup', 2) => dbDir' = "removed"]_vars

\* the watcher could not be started: process killed, directory removed
C30_Witness ==
    /\ pc = "returned" /\ ret.err = "monitor error" /\ observed = <<>>
    /\ killedBy = "launcher" /\ mongod = "dead" /\ dbDir = "removed"


\* ------------------------------------------------- the cache, once more
\* the call of c came after a finished call with the same URLs, is not
\* forced and has written nothing yet: every file in the cache is the work
\* of an earlier call
LaterCall(c) ==
    /\ callState[c].pc \notin {"idle", "done"}
    /\ ~callState[c].force /\ callState[c].writes = 0
    /\ \E d \in callState[c].after : SameRequest(c, d)

\* C31: once a file exists at its final path in the cache directory, no
\* later call of GetOrDownloadMongod for the same URLs rewrites or replaces
\* it, a call that finds another required file of the directory missing
\* included.
C31_CacheNeverMutated ==
    [][\A c \in Callers, p \in Paths :
          LaterCall(c) /\ callState'[c] # callState[c] /\ Exists(p)
              => files'[p] = files[p]]_vars


\* ------------------------------------------------ the arguments of mongod
\* the argument at position i is the flag and the next one is its value
FlagAt(i, flag, value) ==
    /\ i < Len(args) /\ args[i] = flag /\ args[i + 1] = value
HasFlagValue(flag, value) == \E i \in 1..Len(args) : FlagAt(i, flag, value)
HasFlag(flag) == \E i \in 1..Len(args) : args[i] = flag
Count(flag) == Cardinality({i \in 1..Len(args) : args[i] = flag})
\* exec.Command was called
ArgsBuilt == pc \in {"start", "monitor", "select"} \/ args # <<>>
\* the sample versions that start with "7."
SevenDot == {"7.0.1"}
Durable == opts.replica \/ opts.MongoVersion \in SevenDot

\* C32: the argument vector contains --dbpath with the scratch directory
\* and --port with the port, and exactly one --storageEngine; the engine
\* is wiredTiger if and only if replica mode is requested or the version
\* string starts with "7.", otherwise ephemeralForTest; --replSet rs0 is
\* there if and only if replica mode is requested, --auth if and only if
\* auth is requested, --keyFile if and only if both are requested.
C32_ArgumentVector ==
    ArgsBuilt =>
        /\ HasFlagValue("--dbpath", DbDirPath)
        /\ HasFlagValue("--port", ToString(opts.Port))
        /\ Count("--storageEngine") = 1
        /\ HasFlagValue("--storageEngine",
                        IF Durable THEN "wiredTiger" ELSE "ephemeralForTest")
        /\ HasFlagValue("--replSet", "rs0") <=> opts.replica
        /\ HasFlag("--replSet") <=> opts.replica
        /\ HasFlag("--auth") <=> opts.auth
        /\ HasFlag("--keyFile") <=> (opts.auth /\ opts.replica)

\* a mongod of version 7 without a replica set was started with the
\* durable engine
C32_Witness ==
    /\ mongod = "running" /\ opts.MongoVersion = "7.0.1" /\ ~opts.replica
    /\ opts.Port = 40001
    /\ args = <<"--dbpath", DbDirPath, "--port", "40001", "--bind_ip",
                "localhost", "--storageEngine", "wiredTiger">>


\* ------------------------------------------------- the options, once more
\* one of the three sources of a binary is set when fillDefaults returns,
\* the environment applied
SourceGiven ==
    filled.MongoVersion # "" \/ filled.DownloadURL # ""
        \/ filled.MongodBin # ""

\* C33: when MongoVersion, DownloadURL or MongodBin is given (option or
\* environment), fillDefaults returns neither the error "one of
\* MongoVersion, DownloadURL, or MongodBin must be given" nor an error of
\* parsing the empty version.
C33_NoSourceOnlyWhenAllUnset ==
    cfgPc = "done" /\ SourceGiven
        => /\ cfgErr # ErrNoSource
           /\ filled.MongoVersion = "" => cfgErr # ErrVersionForm


\* ------------------------------------------- the download spec, once more
\* the positions among the first three components that spell no number
NotNumbers ==
    LET p == Split(download.version) IN
    {i \in 1..3 : i <= Len(p) /\ ~AtoiComponent(p[i]).ok}
FirstNotNumber == CHOOSE i \in NotNumbers : \A j \in NotNumbers : i <= j
ParseCause ==
    <<"Could not parse major version", "Could not parse minor version",
      "Could not parse patch version">>

\* C34: for a version string with at least three components between its
\* dots, the first of the first three components that spells no number
\* decides the error: "Could not parse major version", "Could not parse
\* minor version" or "Could not parse patch version"; these errors come
\* before the check against 3.2.
C34_FirstBadComponentDecides ==
    (Called /\ Len(Split(download.version)) >= 3 /\ NotNumbers # {})
       => /\ RefusedWith("UnsupportedMongoVersionError",
                         ParseCause[FirstNotNumber])
          /\ download.err.version = download.version

\* 2.0.d is refused for its patch component, not for being below 3.2
C34_Witness ==
    /\ Refused /\ download.version = "2.0.d"
    /\ download.err.msg = "Could not parse patch version"


\* C35: every spec MakeDownloadSpec returns carries the version string it
\* was asked for, the first three components of that version are
\* non-negative integers that make a version of 3.2.0 or above, and its
\* OSName is empty when its platform is not linux.
C35_SpecInvariant ==
    Accepted =>
        /\ download.spec.Version = download.version
        /\ ThreeNumbers /\ \A i \in 1..3 : Requested[i] >= 0
        /\ ~Less(Requested, <<3, 2, 0>>)
        /\ download.spec.Platform # "linux" => download.spec.OSName = ""


\* ------------------------------------------------ the extraction, once more
\* C36: when the calls of extractURLToDest a call of GetOrDownloadMongod
\* made have all returned success, every required name has a file at its
\* final path; a tarball with several entries for one required name and
\* none for another is not taken for a success.
C36_SuccessMeansAllExtracted ==
    \A c \in Callers :
       LET call == callState[c] IN
       (/\ build = "extractURLToDest"
        /\ call.pc = "done" /\ call.err = NoErr /\ ~call.hit)
          => \A i \in 1..Len(ReqOf(call)) :
                Exists(Join(call.dirPath, ReqOf(call)[i]))


\* ------------------------------------------------- the launcher, once more
\* StartWithOptions has returned an error and every call to the operating
\* system it made on the way out has succeeded
FailedCleanly ==
    /\ pc = "returned" /\ ret.err # NoErr
    /\ \A i \in 1..Len(cleanup) : CallOk(cleanup, i)

\* C37: when StartWithOptions returns an error after the watcher was
\* started (a failure event, the timeout, a failing step of the replica
\* code), the watcher it started no longer runs.
C37_FailedLaunchStopsWatcher ==
    FailedCleanly /\ watchArgs = MonitorArgs => watcher # "running"

\* C38: when StartWithOptions fails after the scratch data directory was
\* created and before the mongod process runs (the key file cannot be
\* created, the process cannot be started), the directory is removed
\* when the error is returned.
C38_EarlyFailureRemovesDir ==
    FailedCleanly /\ ret.err \in {"keyfile error", "start error"}
        => dbDir = "removed"

====
